---- MODULE Spec2Model ----
(***************************************************************************)
(* Model of the tant shell session engine: the TerminalParser marker scan  *)
(* (src/src/parser.rs), the per-pane block lifecycle controller and the    *)
(* tab/pane layout operations (src/src/main.rs).                           *)
(*                                                                         *)
(* Bytes are modelled by their numeric value, strings by tuples of bytes.  *)
(* Option<T> is modelled by a tuple: None is <<>>, Some(x) is <<x>>.       *)
(***************************************************************************)
EXTENDS Integers, Sequences, FiniteSets, TLC

VARIABLES
    p,          \* SpecParser/SpecCap: one TerminalParser
    stream,     \* ghost: every byte given to process() on p so far, in order
    taken,      \* ghost: every event returned by take_events() on p so far
    lastTake,   \* ghost: the result of the most recent take_events() on p
    lastScan,   \* ghost: the events queued by the most recent process() on p
    lastData,   \* ghost: the chunk given to the most recent process() on p
    calls,      \* number of process() calls made on p
    layout,     \* Tant.layout: the tabs, each with its layout tree and panes
    active_tab, \* Tant.active_tab
    render_cache, \* Tant.render_cache: (tab_id, pane_id, row) -> style runs
    row_hashes, \* Tant.row_hashes: (tab_id, pane_id, row) -> row hash
    clock,      \* the wall clock as last read by Utc::now()
    next_id,    \* the next value of scrollable::Id::unique()
    fed,        \* number of chunks given to the panes' parsers so far
    edits,      \* number of block and command-line edit messages handled so far
    applied,    \* ghost: the events given to the controller directly, in order
    drawn,      \* ghost: what the most recent render pass drew, row by row
    pump,       \* the reader pump of the first pane: its position and its chunk
    reads,      \* ghost: the chunks the pump has read from the pty master, in order
    ticking,    \* the pane a Message::Tick in progress is at, None between ticks
    pty_locked, \* the ids of the panes whose pty mutex is held outside the control loop
    pty_in,     \* the writes made to the panes' pty writers, in order
    msgs,       \* number of messages handled that write to a pty
    contended,  \* ghost: number of those whose try_lock found the mutex held
    history_search_active, \* Tant.history_search_active
    canvas,     \* the TerminalCanvas::draw call in progress, None between draws
    cache_lock, \* the cache mutexes whose guard a draw in progress holds
    spawn_errors, \* ghost: number of Pane::new calls that returned Err
    selection,  \* the blocks handed to the next export, in order
    exported    \* ghost: the format and the content of the most recent export

parserVars == <<p, stream, taken, lastTake, lastScan, lastData, calls>>
appVars == <<layout, active_tab, render_cache, row_hashes, clock, next_id, fed,
            edits, applied>>
renderVars == <<drawn>>
pumpVars == <<pump, reads, ticking>>
writeVars == <<pty_locked, pty_in, msgs, contended, history_search_active>>
drawVars == <<canvas, cache_lock>>
spawnVars == <<spawn_errors>>
exportVars == <<selection, exported>>
vars == <<parserVars, appVars, renderVars, pumpVars, writeVars, drawVars, spawnVars,
          exportVars>>

\* the variables an application message, a call on the parser p, and a
\* frame leave alone
notApp == <<parserVars, renderVars, pumpVars, writeVars, drawVars, spawnVars,
    exportVars>>
notParser == <<appVars, renderVars, pumpVars, writeVars, drawVars, spawnVars,
    exportVars>>
notRender == <<parserVars, pumpVars, writeVars, drawVars, spawnVars,
    exportVars>>
notPump == <<parserVars, renderVars, writeVars, drawVars, spawnVars,
    exportVars>>

----------------------------------------------------------------------------
(* Option and small helpers *)

None == <<>>
Some(x) == <<x>>
IsSome(o) == o # <<>>
Unwrap(o) == o[1]

SetMin(S) == CHOOSE x \in S : \A y \in S : x <= y
SetMax(S) == CHOOSE x \in S : \A y \in S : x >= y

\* s[from..] with a 0-based byte offset, as a Rust slice
SliceFrom(s, from) == SubSeq(s, from + 1, Len(s))
\* s[..to] with a 0-based exclusive end, as a Rust slice
SliceTo(s, to) == SubSeq(s, 1, to)

----------------------------------------------------------------------------
(* Byte strings of the shell-integration protocol *)

\* "\x1b]133;A"
OSC_PROMPT_START == <<27, 93, 49, 51, 51, 59, 65>>
\* "\x1b]133;C"
OSC_COMMAND_START == <<27, 93, 49, 51, 51, 59, 67>>
\* "\x1b]133;D"
OSC_COMMAND_END_PREFIX == <<27, 93, 49, 51, 51, 59, 68>>
\* "\x1b]133;G;"
OSC_GIT_INFO_PREFIX == <<27, 93, 49, 51, 51, 59, 71, 59>>
\* "\x1b[?1049h" and "\x1b[?1049l"
ALT_SCREEN_ENTER == <<27, 91, 63, 49, 48, 52, 57, 104>>
ALT_SCREEN_EXIT == <<27, 91, 63, 49, 48, 52, 57, 108>>
\* '\x07' and "\x1b\\"
BEL == <<7>>
ST == <<27, 92>>

----------------------------------------------------------------------------
(* str helpers used by the marker scan *)

\* String::from_utf8_lossy: bytes that are not valid UTF-8 become U+FFFD.
\* The model's streams never contain multi-byte sequences, so every byte
\* >= 128 is an invalid byte.
from_utf8_lossy(bytes) ==
    [i \in 1..Len(bytes) |-> IF bytes[i] < 128 THEN bytes[i] ELSE 65533] \o <<>>

MatchAt(s, pat, i) ==
    /\ i + Len(pat) <= Len(s)
    /\ s[i + 1] = pat[1]
    /\ SubSeq(s, i + 1, i + Len(pat)) = pat

Matches(s, pat) == {i \in 0..(Len(s) - Len(pat)) : MatchAt(s, pat, i)}

\* str::contains
contains(s, pat) == \E i \in 0..(Len(s) - Len(pat)) : MatchAt(s, pat, i)

\* str::find: byte offset of the first match
find(s, pat) ==
    IF Matches(s, pat) = {} THEN None ELSE Some(SetMin(Matches(s, pat)))

\* str::rfind: byte offset of the last match
rfind(s, pat) ==
    IF Matches(s, pat) = {} THEN None ELSE Some(SetMax(Matches(s, pat)))

\* Option::or_else
or_else(a, b) == IF IsSome(a) THEN a ELSE b

\* str::strip_prefix
strip_prefix(s, pat) ==
    IF Len(s) >= Len(pat) /\ SubSeq(s, 1, Len(pat)) = pat
    THEN Some(SliceFrom(s, Len(pat)))
    ELSE None

IsWhitespace(c) == c \in {9, 10, 11, 12, 13, 32}

RECURSIVE trim_start(_)
trim_start(s) ==
    IF s # <<>> /\ IsWhitespace(s[1]) THEN trim_start(Tail(s)) ELSE s

RECURSIVE trim_end(_)
trim_end(s) ==
    IF s # <<>> /\ IsWhitespace(s[Len(s)])
    THEN trim_end(SubSeq(s, 1, Len(s) - 1))
    ELSE s

\* str::trim
trim(s) == trim_end(trim_start(s))

IsDigit(c) == c >= 48 /\ c <= 57

\* i32 accumulation of decimal digits; sign is 1 or -1; <<>> on overflow
RECURSIVE parse_digits(_, _, _)
parse_digits(s, acc, sign) ==
    IF s = <<>> THEN Some(acc)
    ELSE IF ~IsDigit(s[1]) THEN None
    ELSE LET d == s[1] - 48 IN
         IF sign = 1
         THEN IF acc > 214748364 \/ (acc = 214748364 /\ d > 7)
              THEN None
              ELSE parse_digits(Tail(s), acc * 10 + d, sign)
         ELSE IF acc < -214748364 \/ (acc = -214748364 /\ d > 8)
              THEN None
              ELSE parse_digits(Tail(s), acc * 10 - d, sign)

\* str::parse::<i32>: optional sign, then at least one digit, within i32
parse_i32(s) ==
    IF s = <<>> THEN None
    ELSE IF s[1] = 45 THEN (IF Len(s) = 1 THEN None ELSE parse_digits(Tail(s), 0, -1))
    ELSE IF s[1] = 43 THEN (IF Len(s) = 1 THEN None ELSE parse_digits(Tail(s), 0, 1))
    ELSE parse_digits(s, 0, 1)

\* str::split(sep) for a one-byte separator
RECURSIVE split(_, _)
split(s, sep) ==
    LET i == find(s, <<sep>>) IN
    IF IsSome(i)
    THEN <<SliceTo(s, Unwrap(i))>> \o split(SliceFrom(s, Unwrap(i) + 1), sep)
    ELSE <<s>>

\* str::split_once(sep) for a one-byte separator: Some(<<key, value>>)
split_once(s, sep) ==
    LET i == find(s, <<sep>>) IN
    IF IsSome(i)
    THEN Some(<<SliceTo(s, Unwrap(i)), SliceFrom(s, Unwrap(i) + 1)>>)
    ELSE None

----------------------------------------------------------------------------
(* The vt100 screen grid behind TerminalParser.parser.  A cell's contents  *)
(* is a byte string, empty for a cell never written; its colours are those *)
(* of the pen when it was written.  A colour is COLOR_DEFAULT              *)
(* (vt100::Color::Default) or n for vt100::Color::Idx(n).                  *)

COLOR_DEFAULT == -1

\* a grid of rows x cols cells that all hold v
vt100_blank(rows, cols, v) == [r \in 1..rows |-> [c \in 1..cols |-> v]]

\* vt100::Parser::new(rows, cols, scrollback)
vt100_new(rows, cols) ==
    [rows |-> rows, cols |-> cols,
     grid |-> vt100_blank(rows, cols, <<>>),
     fgs |-> vt100_blank(rows, cols, COLOR_DEFAULT),
     bgs |-> vt100_blank(rows, cols, COLOR_DEFAULT),
     fg |-> COLOR_DEFAULT, bg |-> COLOR_DEFAULT,
     row |-> 0, col |-> 0, mode |-> "ground", param |-> 0]

\* the cursor moves down one line; the grid scrolls up at the last row
vt100_linefeed(vt) ==
    IF vt.row + 1 < vt.rows
    THEN [vt EXCEPT !.row = @ + 1]
    ELSE [vt EXCEPT !.grid = Tail(@) \o <<[c \in 1..vt.cols |-> <<>>]>>,
                    !.fgs = Tail(@) \o <<[c \in 1..vt.cols |-> COLOR_DEFAULT]>>,
                    !.bgs = Tail(@) \o <<[c \in 1..vt.cols |-> COLOR_DEFAULT]>>]

\* byte b is stored in the cell under the cursor with the pen's colours,
\* and the cursor moves right
vt100_put(vt, b) ==
    [vt EXCEPT !.grid[vt.row + 1][vt.col + 1] = <<b>>,
               !.fgs[vt.row + 1][vt.col + 1] = vt.fg,
               !.bgs[vt.row + 1][vt.col + 1] = vt.bg,
               !.col = @ + 1]

\* a printable byte is written at the cursor, wrapping at the right margin
vt100_print(vt, b) ==
    vt100_put(IF vt.col >= vt.cols
              THEN [vt100_linefeed(vt) EXCEPT !.col = 0]
              ELSE vt, b)

\* CSI <n> m: select graphic rendition with one parameter
vt100_sgr(vt, n) ==
    IF n = 0 THEN [vt EXCEPT !.fg = COLOR_DEFAULT, !.bg = COLOR_DEFAULT]
    ELSE IF n >= 30 /\ n <= 37 THEN [vt EXCEPT !.fg = n - 30]
    ELSE IF n = 39 THEN [vt EXCEPT !.fg = COLOR_DEFAULT]
    ELSE IF n >= 40 /\ n <= 47 THEN [vt EXCEPT !.bg = n - 40]
    ELSE IF n = 49 THEN [vt EXCEPT !.bg = COLOR_DEFAULT]
    ELSE vt

\* one byte through the emulator's escape-sequence state machine
vt100_step(vt, b) ==
    CASE vt.mode = "ground" ->
            IF b = 27 THEN [vt EXCEPT !.mode = "escape"]
            ELSE IF b = 10 THEN vt100_linefeed(vt)
            ELSE IF b = 13 THEN [vt EXCEPT !.col = 0]
            ELSE IF b >= 32 /\ b < 127 THEN vt100_print(vt, b)
            ELSE vt
      [] vt.mode = "escape" ->
            IF b = 93 THEN [vt EXCEPT !.mode = "osc"]
            ELSE IF b = 91 THEN [vt EXCEPT !.mode = "csi", !.param = 0]
            ELSE [vt EXCEPT !.mode = "ground"]
      [] vt.mode = "osc" ->
            IF b = 7 THEN [vt EXCEPT !.mode = "ground"]
            ELSE IF b = 27 THEN [vt EXCEPT !.mode = "osc_escape"]
            ELSE vt
      [] vt.mode = "osc_escape" ->
            IF b = 92 THEN [vt EXCEPT !.mode = "ground"]
            ELSE IF b = 27 THEN vt
            ELSE [vt EXCEPT !.mode = "osc"]
      [] vt.mode = "csi_private" ->
            IF b >= 64 /\ b < 127 THEN [vt EXCEPT !.mode = "ground", !.param = 0] ELSE vt
      [] OTHER ->
            IF b = 63 THEN [vt EXCEPT !.mode = "csi_private"]
            ELSE IF b >= 48 /\ b <= 57
            THEN [vt EXCEPT !.param = IF @ < 100 THEN @ * 10 + (b - 48) ELSE @]
            ELSE IF b = 109
            THEN [vt100_sgr(vt, vt.param) EXCEPT !.mode = "ground", !.param = 0]
            ELSE IF b >= 64 /\ b < 127 THEN [vt EXCEPT !.mode = "ground", !.param = 0]
            ELSE vt

\* bytes data[lo..hi] through the emulator, in order; the range is halved
\* and the first half is evaluated (left) before the second half starts
RECURSIVE vt100_feed(_, _, _, _)
RECURSIVE vt100_feed_rest(_, _, _, _)
vt100_feed_rest(left, data, lo, hi) ==
    IF left.rows < 0 THEN left ELSE vt100_feed(left, data, lo, hi)

vt100_feed(vt, data, lo, hi) ==
    IF lo > hi THEN vt
    ELSE IF lo = hi THEN vt100_step(vt, data[lo])
    ELSE vt100_feed_rest(vt100_feed(vt, data, lo, (lo + hi) \div 2),
                         data, (lo + hi) \div 2 + 1, hi)

\* vt100::Parser::process
vt100_process(vt, data) == vt100_feed(vt, data, 1, Len(data))

\* vt100::Screen::cell(row, col): None outside the grid
vt100_cell(vt, row, col) ==
    IF row < vt.rows /\ col < vt.cols
    THEN Some(vt.grid[row + 1][col + 1])
    ELSE None

\* vt100::Cell::fgcolor and bgcolor of the cell at (row, col) of the grid
vt100_fgcolor(vt, row, col) == vt.fgs[row + 1][col + 1]
vt100_bgcolor(vt, row, col) == vt.bgs[row + 1][col + 1]

\* vt100::Screen::size(): (rows, cols)
vt100_size(vt) == <<vt.rows, vt.cols>>

\* vt100::Parser::set_size(rows, cols): rows and columns are cut or added
\* at the bottom and at the right, and the cursor stays inside the grid
vt100_resize_grid(g, rows, cols, v) ==
    [r \in 1..rows |-> [c \in 1..cols |->
        IF r <= Len(g) /\ c <= Len(g[r]) THEN g[r][c] ELSE v]]

vt100_set_size(vt, rows, cols) ==
    [vt EXCEPT !.rows = rows, !.cols = cols,
               !.grid = vt100_resize_grid(vt.grid, rows, cols, <<>>),
               !.fgs = vt100_resize_grid(vt.fgs, rows, cols, COLOR_DEFAULT),
               !.bgs = vt100_resize_grid(vt.bgs, rows, cols, COLOR_DEFAULT),
               !.row = IF vt.row >= rows THEN rows - 1 ELSE vt.row,
               !.col = IF vt.col > cols THEN cols ELSE vt.col]

----------------------------------------------------------------------------
(* TerminalParser *)

EvPromptShown == [type |-> "PromptShown"]
EvCommandStart == [type |-> "CommandStart"]
EvCommandEnd(code) == [type |-> "CommandEnd", code |-> code]
EvGitInfo(branch, status) == [type |-> "GitInfo", branch |-> branch, status |-> status]
EvCommand(cmd) == [type |-> "Command", cmd |-> cmd]
EvDirectory(dir) == [type |-> "Directory", dir |-> dir]

\* "branch", "status", "clean", "dirty", "conflicts" as bytes
KEY_BRANCH == <<98, 114, 97, 110, 99, 104>>
KEY_STATUS == <<115, 116, 97, 116, 117, 115>>
VAL_CLEAN == <<99, 108, 101, 97, 110>>
VAL_DIRTY == <<100, 105, 114, 116, 121>>
VAL_CONFLICTS == <<99, 111, 110, 102, 108, 105, 99, 116, 115>>

\* TerminalParser::new
TerminalParser_new(rows, cols) ==
    [parser |-> vt100_new(rows, cols),
     events |-> <<>>,
     dirty |-> TRUE,
     buffer |-> <<>>,
     in_command |-> FALSE,
     alt_screen_active |-> FALSE]

\* the loop of parse_git_info over the parts: acc is <<branch, status>>,
\* the result is None as soon as a part has no '='
RECURSIVE parse_git_parts(_, _)
parse_git_parts(parts, acc) ==
    IF parts = <<>> THEN Some(acc)
    ELSE LET kv == split_once(parts[1], 61) IN
         IF ~IsSome(kv) THEN None
         ELSE LET key == Unwrap(kv)[1]
                  value == Unwrap(kv)[2]
              IN IF key = KEY_BRANCH
                 THEN parse_git_parts(Tail(parts),
                        IF value # <<>> THEN <<Some(value), acc[2]>> ELSE acc)
                 ELSE IF key = KEY_STATUS
                 THEN parse_git_parts(Tail(parts),
                        <<acc[1],
                          IF value = VAL_CLEAN THEN Some("Clean")
                          ELSE IF value = VAL_DIRTY THEN Some("Dirty")
                          ELSE IF value = VAL_CONFLICTS THEN Some("Conflicts")
                          ELSE None>>)
                 ELSE parse_git_parts(Tail(parts), acc)

\* TerminalParser::parse_git_info: Some(<<branch, status>>) or None
parse_git_info(payload) ==
    LET r == parse_git_parts(split(payload, 59), <<None, None>>) IN
    IF IsSome(r) /\ IsSome(Unwrap(r)[1])
    THEN Some(<<Unwrap(Unwrap(r)[1]), Unwrap(r)[2]>>)
    ELSE None

\* the alternate-screen checks of the marker scan
scan_alt_screen(self, buffer_str) ==
    LET entered == IF contains(buffer_str, ALT_SCREEN_ENTER) THEN TRUE
                   ELSE self.alt_screen_active
    IN IF contains(buffer_str, ALT_SCREEN_EXIT) THEN FALSE ELSE entered

\* the prompt-start check of the marker scan
scan_prompt(self, buffer_str) ==
    IF contains(buffer_str, OSC_PROMPT_START)
    THEN [self EXCEPT !.events = Append(@, EvPromptShown)]
    ELSE self

\* the command-start check of the marker scan
scan_command_start(self, buffer_str) ==
    IF contains(buffer_str, OSC_COMMAND_START)
    THEN [self EXCEPT !.events = Append(@, EvCommandStart), !.in_command = TRUE]
    ELSE self

\* the terminator search shared by the command-end and git-info checks:
\* rest.find('\x07').or_else(|| rest.find("\x1b\\"))
find_terminator(rest) == or_else(find(rest, BEL), find(rest, ST))

\* the command-end check of the marker scan
scan_command_end(self, buffer_str) ==
    LET pos == find(buffer_str, OSC_COMMAND_END_PREFIX) IN
    IF ~IsSome(pos) THEN self
    ELSE LET rest == SliceFrom(buffer_str, Unwrap(pos) + Len(OSC_COMMAND_END_PREFIX))
             end_pos == find_terminator(rest)
         IN IF ~IsSome(end_pos) THEN self
            ELSE LET params == SliceTo(rest, Unwrap(end_pos))
                     exit_code_str == strip_prefix(params, <<59>>)
                 IN IF ~IsSome(exit_code_str) THEN self
                    ELSE LET exit_code == parse_i32(trim(Unwrap(exit_code_str))) IN
                         IF ~IsSome(exit_code) THEN self
                         ELSE [self EXCEPT
                                 !.events = Append(@, EvCommandEnd(Unwrap(exit_code))),
                                 !.in_command = FALSE]

\* the git-info check of the marker scan
scan_git_info(self, buffer_str) ==
    LET pos == rfind(buffer_str, OSC_GIT_INFO_PREFIX) IN
    IF ~IsSome(pos) THEN self
    ELSE LET rest == SliceFrom(buffer_str, Unwrap(pos) + Len(OSC_GIT_INFO_PREFIX))
             end_pos == find_terminator(rest)
         IN IF ~IsSome(end_pos) THEN self
            ELSE LET info == parse_git_info(SliceTo(rest, Unwrap(end_pos))) IN
                 IF ~IsSome(info) THEN self
                 ELSE [self EXCEPT
                         !.events = Append(@, EvGitInfo(Unwrap(info)[1], Unwrap(info)[2]))]

\* the buffer cap of the marker scan
BUFFER_CAP == 8192
BUFFER_KEEP == 4096

\* the cap without the truncation
limit_buffer_off(buffer) == buffer

\* the cap with the truncation taken one byte early, at 8192 bytes
limit_buffer_at_cap(buffer) ==
    IF Len(buffer) >= BUFFER_CAP
    THEN LET keep_from == Len(buffer) - BUFFER_KEEP IN SliceFrom(buffer, keep_from)
    ELSE buffer

limit_buffer(buffer) ==
    IF Len(buffer) > BUFFER_CAP
    THEN LET keep_from == Len(buffer) - BUFFER_KEEP IN SliceFrom(buffer, keep_from)
    ELSE buffer

\* TerminalParser::detect_shell_integration_markers
detect_shell_integration_markers(self) ==
    LET buffer_str == from_utf8_lossy(self.buffer)
        s1 == [self EXCEPT !.alt_screen_active = scan_alt_screen(self, buffer_str)]
        s2 == scan_prompt(s1, buffer_str)
        s3 == scan_command_start(s2, buffer_str)
        s4 == scan_command_end(s3, buffer_str)
        s5 == scan_git_info(s4, buffer_str)
    IN [s5 EXCEPT !.buffer = limit_buffer(@)]

\* TerminalParser::process
process(self, data) ==
    LET s1 == [self EXCEPT !.buffer = @ \o data]
        s2 == detect_shell_integration_markers(s1)
    IN [s2 EXCEPT !.parser = vt100_process(@, data), !.dirty = TRUE]

\* TerminalParser::take_events: <<the new parser, the events returned>>
take_events_keep(self) == <<self, self.events>>

take_events(self) == <<[self EXCEPT !.events = <<>>], self.events>>

\* TerminalParser::screen_text
RECURSIVE screen_text_cols(_, _, _, _)
screen_text_cols(vt, row, col, ncols) ==
    IF col >= ncols THEN <<>>
    ELSE LET cell == vt100_cell(vt, row, col) IN
         (IF IsSome(cell) THEN Unwrap(cell) ELSE <<>>)
            \o screen_text_cols(vt, row, col + 1, ncols)

RECURSIVE screen_text_rows(_, _, _, _)
screen_text_rows(vt, row, nrows, ncols) ==
    IF row >= nrows THEN <<>>
    ELSE screen_text_cols(vt, row, 0, ncols) \o <<10>>
            \o screen_text_rows(vt, row + 1, nrows, ncols)

screen_text(self) ==
    screen_text_rows(self.parser, 0, vt100_size(self.parser)[2], vt100_size(self.parser)[1])

\* TerminalParser::is_alt_screen_active
is_alt_screen_active(self) == self.alt_screen_active

----------------------------------------------------------------------------
(* Byte streams given to one parser *)

\* ESC ] 133 ; C <term>
MarkerC(term) == OSC_COMMAND_START \o term
\* ESC ] 133 ; A <term>
MarkerA(term) == OSC_PROMPT_START \o term
\* ESC ] 133 ; D ; <code> <term>
MarkerD(code, term) == OSC_COMMAND_END_PREFIX \o <<59>> \o code \o term
\* ESC ] 133 ; G ; branch=<branch> ; status=<status> <term>
MarkerG(branch, status, term) ==
    OSC_GIT_INFO_PREFIX \o KEY_BRANCH \o <<61>> \o branch \o <<59>>
        \o KEY_STATUS \o <<61>> \o status \o term

\* "ls\n"
TextLs == <<108, 115, 10>>
\* the branch names "a" and "b"
BranchA == <<97>>
BranchB == <<98>>

\* the chunks a process() call of SpecParser may be given: whole markers,
\* BEL- and ST-terminated, an ST-terminated one followed by a BEL-terminated
\* one, the end of one command followed by the start of the next, a
\* malformed one, a marker split in two (its second half BEL-terminated, or
\* ST-terminated and followed by a prompt marker), plain output and a lone
\* bell
ParserChunks ==
    { MarkerC(BEL),
      MarkerA(BEL),
      MarkerD(<<48>>, BEL),
      MarkerD(<<49>>, ST),
      MarkerD(<<49>>, ST) \o MarkerA(BEL),
      MarkerD(<<48>>, BEL) \o MarkerC(BEL),
      MarkerD(<<120>>, BEL),
      OSC_COMMAND_END_PREFIX \o <<59>>,
      <<48>> \o BEL,
      <<49>> \o ST \o MarkerA(BEL),
      MarkerG(BranchA, VAL_CLEAN, BEL),
      MarkerG(BranchB, VAL_DIRTY, ST),
      TextLs,
      BEL }

\* the number of process() calls of a SpecParser behaviour
MaxCalls == 3

\* a run of n bytes of plain output
Filler(n) == [i \in 1..n |-> 120] \o <<>>

\* the chunks a process() call of SpecCap may be given: plain output of
\* sizes around the cap, and a command-end marker
CapChunks ==
    { Filler(1),
      Filler(BUFFER_KEEP),
      Filler(BUFFER_CAP),
      Filler(BUFFER_CAP + 1),
      MarkerD(<<48>>, BEL) }

\* the number of process() calls of a SpecCap behaviour
MaxCapCalls == 3

\* the geometry Pane::new gives its parser (24 x 80 in the source)
ScreenRows == 2
ScreenCols == 3

InitP ==
    /\ p = TerminalParser_new(ScreenRows, ScreenCols)
    /\ stream = <<>>
    /\ taken = <<>>
    /\ lastTake = <<>>
    /\ lastScan = <<>>
    /\ lastData = <<>>
    /\ calls = 0

\* one process(data) call on p
DoProcess(data) ==
    /\ p' = process(p, data)
    /\ stream' = stream \o data
    /\ lastScan' = SubSeq(p'.events, Len(p.events) + 1, Len(p'.events))
    /\ lastData' = data
    /\ calls' = calls + 1
    /\ UNCHANGED <<taken, lastTake>>

ParserProcess ==
    /\ calls < MaxCalls
    /\ \E data \in ParserChunks : DoProcess(data)

CapProcess ==
    /\ calls < MaxCapCalls
    /\ \E data \in CapChunks : DoProcess(data)

\* one take_events() call on p
TakeEvents ==
    /\ p' = take_events(p)[1]
    /\ lastTake' = take_events(p)[2]
    /\ taken' = taken \o take_events(p)[2]
    /\ UNCHANGED <<stream, lastScan, lastData, calls>>


----------------------------------------------------------------------------
(* The wall clock.  Utc::now() is read several times within one handler;  *)
(* between two reads the clock stays or advances.  A handler is given a    *)
(* schedule adv: the k-th read of the handler returns the clock advanced   *)
(* by adv[k].  The clock is counted in ticks, ClockTicksPerMs to the       *)
(* millisecond, and stops at MaxClock.                                     *)

MaxClock == 2
MaxNowCalls == 3
ClockTicksPerMs == 2

Schedules == [1..MaxNowCalls -> 0..1]

\* a handler's clock: the time of the last read and the number of reads
ClockAt(t) == [t |-> t, reads |-> 0]

\* Utc::now(): the handler's clock after one more read
utc_now(ck, adv) ==
    LET k == ck.reads + 1
        step == IF k <= MaxNowCalls THEN adv[k] ELSE 0
        t == IF ck.t + step > MaxClock THEN MaxClock ELSE ck.t + step
    IN [t |-> t, reads |-> k]

\* (a - b).num_milliseconds() as u64, for a >= b
num_milliseconds(a, b) == (a - b) \div ClockTicksPerMs

----------------------------------------------------------------------------
(* Blocks and the block lifecycle controller (Message::Tick) *)

\* HostInfo.display and HostInfo.is_remote of a local session
HostDisplay == "local"
HostIsRemote == FALSE

\* the Block a CommandStart creates
new_block(started_at, working_directory) ==
    [command |-> <<>>,
     started_at |-> Some(started_at),
     ended_at |-> None,
     duration_ms |-> None,
     exit_code |-> None,
     cwd |-> Some(working_directory),
     output_range |-> None,
     pinned |-> FALSE,
     tags |-> <<>>,
     selected |-> FALSE,
     output |-> <<>>,
     git_branch |-> None,
     git_status |-> None,
     host |-> HostDisplay,
     is_remote |-> HostIsRemote,
     collapsed |-> FALSE]

\* the timestamps a finalization writes: ended_at from one read of the
\* clock and duration_ms from the next; cx is [pane, ck]
stamp_end(block, ck, adv) ==
    IF IsSome(block.started_at)
    THEN LET c1 == utc_now(ck, adv)
             c2 == utc_now(c1, adv)
         IN [block |-> [block EXCEPT
                          !.ended_at = Some(c1.t),
                          !.duration_ms =
                              Some(num_milliseconds(c2.t, Unwrap(block.started_at)))],
             ck |-> c2]
    ELSE [block |-> block, ck |-> ck]

\* CommandStart without the defensive finalization: the running block is
\* replaced and never reaches history
on_command_start_drop(pane, ck, adv) ==
    LET c3 == utc_now(ck, adv)
    IN [pane |-> [pane EXCEPT
                    !.current_block = Some(new_block(c3.t, pane.working_directory))],
        ck |-> c3]

\* ParserEvent::CommandStart
on_command_start(pane, ck, adv) ==
    LET fin == IF IsSome(pane.current_block)
               THEN LET st == stamp_end(Unwrap(pane.current_block), ck, adv) IN
                    [pane |-> [pane EXCEPT
                                 !.current_block = None,
                                 !.history = Append(@,
                                     [st.block EXCEPT !.output = screen_text(pane.parser)])],
                     ck |-> st.ck]
               ELSE [pane |-> pane, ck |-> ck]
        c3 == utc_now(fin.ck, adv)
    IN [pane |-> [fin.pane EXCEPT
                    !.current_block = Some(new_block(c3.t, fin.pane.working_directory))],
        ck |-> c3]

\* ParserEvent::Command(cmd)
on_command(pane, ck, cmd) ==
    [pane |-> IF IsSome(pane.current_block)
              THEN [pane EXCEPT !.current_block = Some([Unwrap(@) EXCEPT !.command = cmd])]
              ELSE pane,
     ck |-> ck]

\* Directory with the working directory set only while a block is running
on_directory_running_only(pane, ck, dir) ==
    [pane |-> IF IsSome(pane.current_block)
              THEN [pane EXCEPT !.current_block = Some([Unwrap(@) EXCEPT !.cwd = Some(dir)]),
                                !.working_directory = dir]
              ELSE pane,
     ck |-> ck]

\* ParserEvent::Directory(dir)
on_directory(pane, ck, dir) ==
    LET p1 == IF IsSome(pane.current_block)
              THEN [pane EXCEPT !.current_block = Some([Unwrap(@) EXCEPT !.cwd = Some(dir)])]
              ELSE pane
    IN [pane |-> [p1 EXCEPT !.working_directory = dir], ck |-> ck]

\* ParserEvent::GitInfo { branch, status }
on_git_info(pane, ck, branch, status) ==
    [pane |-> IF IsSome(pane.current_block)
              THEN [pane EXCEPT !.current_block =
                        Some([Unwrap(@) EXCEPT !.git_branch = Some(branch),
                                               !.git_status = status])]
              ELSE pane,
     ck |-> ck]

\* CommandEnd that, with no current block, finalizes a block made on the spot
on_command_end_idle_block(pane, ck, adv, status) ==
    LET b1 == [(IF IsSome(pane.current_block) THEN Unwrap(pane.current_block)
                ELSE new_block(ck.t, pane.working_directory))
                  EXCEPT !.exit_code = Some(status)]
        st == stamp_end(b1, ck, adv)
    IN [pane |-> [pane EXCEPT
                    !.current_block = None,
                    !.history = Append(@,
                        [st.block EXCEPT !.output = screen_text(pane.parser)])],
        ck |-> st.ck]

\* CommandEnd that finalizes the block without writing the exit code
on_command_end_no_code(pane, ck, adv, status) ==
    IF IsSome(pane.current_block)
    THEN LET st == stamp_end(Unwrap(pane.current_block), ck, adv)
         IN [pane |-> [pane EXCEPT
                         !.current_block = None,
                         !.history = Append(@,
                             [st.block EXCEPT !.output = screen_text(pane.parser)])],
             ck |-> st.ck]
    ELSE [pane |-> pane, ck |-> ck]

\* ParserEvent::CommandEnd(status)
on_command_end(pane, ck, adv, status) ==
    IF IsSome(pane.current_block)
    THEN LET b1 == [Unwrap(pane.current_block) EXCEPT !.exit_code = Some(status)]
             st == stamp_end(b1, ck, adv)
         IN [pane |-> [pane EXCEPT
                         !.current_block = None,
                         !.history = Append(@,
                             [st.block EXCEPT !.output = screen_text(pane.parser)])],
             ck |-> st.ck]
    ELSE [pane |-> pane, ck |-> ck]

\* one arm of the match on a drained event
apply_event(pane, ck, adv, event) ==
    CASE event.type = "PromptShown" -> [pane |-> pane, ck |-> ck]
      [] event.type = "CommandStart" -> on_command_start(pane, ck, adv)
      [] event.type = "Command" -> on_command(pane, ck, event.cmd)
      [] event.type = "Directory" -> on_directory(pane, ck, event.dir)
      [] event.type = "GitInfo" -> on_git_info(pane, ck, event.branch, event.status)
      [] OTHER -> on_command_end(pane, ck, adv, event.code)

\* for event in events { match event ... }; r is [pane, ck] so far
RECURSIVE apply_events(_, _, _)
apply_events(r, adv, events) ==
    IF events = <<>> THEN r
    ELSE apply_events(apply_event(r.pane, r.ck, adv, Head(events)), adv, Tail(events))

\* while let Ok(data) = pane.data_receiver.try_recv() { pane.parser.process(&data) }
RECURSIVE drain_receiver(_, _)
drain_receiver(parser, chunks) ==
    IF chunks = <<>> THEN parser
    ELSE drain_receiver(process(parser, Head(chunks)), Tail(chunks))

\* a tick that, finding no event for a pane with a running block, ends the
\* block as CommandEnd(0) would
drain_events_ending(pane, ck, adv, te) ==
    IF te[2] = <<>>
    THEN on_command_end([pane EXCEPT !.parser = te[1], !.data_receiver = <<>>],
                        ck, adv, 0)
    ELSE apply_events([pane |-> [pane EXCEPT !.parser = te[1], !.data_receiver = <<>>],
                       ck |-> ck], adv, te[2])

\* let events = pane.parser.take_events(); for event in events { ... }
\* te is the result of take_events
drain_events(pane, ck, adv, te) ==
    apply_events([pane |-> [pane EXCEPT !.parser = te[1], !.data_receiver = <<>>],
                  ck |-> ck], adv, te[2])

\* the body of the tick's loop for one pane: [pane, ck] after it
tick_pane(pane, ck, adv) ==
    drain_events(pane, ck, adv,
                 take_events(drain_receiver(pane.parser, pane.data_receiver)))

\* for pane in &mut tab.panes; r is [panes, ck, has_new_data] so far
RECURSIVE tick_panes(_, _, _)
tick_pane_done(r, i, done) ==
    [panes |-> [r.panes EXCEPT ![i] = done.pane],
     ck |-> done.ck,
     has_new_data |-> r.has_new_data \/ r.panes[i].data_receiver # <<>>]

tick_panes(r, i, adv) ==
    IF i > Len(r.panes) THEN r
    ELSE tick_panes(tick_pane_done(r, i, tick_pane(r.panes[i], r.ck, adv)), i + 1, adv)

\* for tab in &mut self.layout; r is [tabs, ck, has_new_data] so far
RECURSIVE tick_tabs(_, _, _)
tick_tab_done(r, i, done) ==
    [tabs |-> [r.tabs EXCEPT ![i].panes = done.panes],
     ck |-> done.ck,
     has_new_data |-> done.has_new_data]

tick_tabs(r, i, adv) ==
    IF i > Len(r.tabs) THEN r
    ELSE tick_tabs(tick_tab_done(r, i,
                      tick_panes([panes |-> r.tabs[i].panes, ck |-> r.ck,
                                  has_new_data |-> r.has_new_data], 1, adv)),
                   i + 1, adv)

\* if has_new_data { for every pane: if pane.follow_mode { scroll_offset = 0 } }
follow_new_data(tabs, has_new_data) ==
    IF has_new_data
    THEN [t \in 1..Len(tabs) |->
            [tabs[t] EXCEPT !.panes =
                [i \in 1..Len(tabs[t].panes) |->
                    IF tabs[t].panes[i].follow_mode
                    THEN [tabs[t].panes[i] EXCEPT !.scroll_offset = 0]
                    ELSE tabs[t].panes[i]]]]
    ELSE tabs

\* Message::Tick on the tabs, reading the clock from time t on: [tabs, ck]
tick_done(r) == [tabs |-> follow_new_data(r.tabs, r.has_new_data), ck |-> r.ck]

tick(tabs, t, adv) ==
    tick_done(tick_tabs([tabs |-> tabs, ck |-> ClockAt(t), has_new_data |-> FALSE],
                        1, adv))

----------------------------------------------------------------------------
(* Panes, tabs and the layout tree *)

\* the capacity of a pane's channel: tokio::sync::mpsc::channel(100)
CHANNEL_CAPACITY == 100

\* the working directories of a new pane: $HOME and the process's own
HomeDir == "/home"
CurrentDir == "/cwd"

\* Pane::new, when the pty and the shell were created
Pane_new(id, wd) ==
    [id |-> id,
     parser |-> TerminalParser_new(ScreenRows, ScreenCols),
     history |-> <<>>,
     current_block |-> None,
     current_command |-> <<>>,
     working_directory |-> wd,
     data_receiver |-> <<>>,
     scroll_offset |-> 0,
     follow_mode |-> TRUE]

Leaf(pane_id) == [kind |-> "Leaf", pane_id |-> pane_id]
Split(axis, left, right) == [kind |-> "Split", axis |-> axis, left |-> left, right |-> right]

\* Vec::remove(index), with a 0-based index
RemoveAt(s, index) == SubSeq(s, 1, index) \o SubSeq(s, index + 2, Len(s))

\* Tant::remove_pane_from_layout: Option<LayoutNode>
RECURSIVE remove_pane_from_layout(_, _)
remove_pane_from_layout(node, pane_id) ==
    IF node.kind = "Leaf"
    THEN IF node.pane_id = pane_id THEN None ELSE Some(node)
    ELSE LET left == remove_pane_from_layout(node.left, pane_id)
             right == remove_pane_from_layout(node.right, pane_id)
         IN IF ~IsSome(left) /\ ~IsSome(right) THEN None
            ELSE IF ~IsSome(right) THEN left
            ELSE IF ~IsSome(left) THEN right
            ELSE Some(Split(node.axis, Unwrap(left), Unwrap(right)))

\* a reindex that leaves every leaf id as it is
reindex_layout_keep(node, removed_id) == node

\* Tant::reindex_layout
RECURSIVE reindex_layout(_, _)
reindex_layout(node, removed_id) ==
    IF node.kind = "Leaf"
    THEN IF node.pane_id > removed_id THEN Leaf(node.pane_id - 1) ELSE node
    ELSE Split(node.axis, reindex_layout(node.left, removed_id),
                          reindex_layout(node.right, removed_id))

\* Tant::split_layout_node: <<the node after the call, the result>>
RECURSIVE split_layout_node(_, _, _, _)
split_layout_node(node, target_pane_id, new_pane_id, axis) ==
    IF node.kind = "Leaf"
    THEN IF node.pane_id = target_pane_id
         THEN <<Split(axis, Leaf(target_pane_id), Leaf(new_pane_id)), TRUE>>
         ELSE <<node, FALSE>>
    ELSE LET l == split_layout_node(node.left, target_pane_id, new_pane_id, axis) IN
         IF l[2] THEN <<[node EXCEPT !.left = l[1]], TRUE>>
         ELSE LET r == split_layout_node(node.right, target_pane_id, new_pane_id, axis)
              IN <<[node EXCEPT !.right = r[1]], r[2]>>

\* the close guard that takes no block for running
has_running_block_never(pane) == FALSE

\* pane.current_block.as_ref().map(|b| b.exit_code.is_none()).unwrap_or(false)
has_running_block(pane) ==
    IF IsSome(pane.current_block)
    THEN ~IsSome(Unwrap(pane.current_block).exit_code)
    ELSE FALSE

\* Tant::close_active_pane on the tabs: the tabs after the call
close_active_pane(tabs, tab_index) ==
    IF tab_index >= Len(tabs) THEN tabs
    ELSE LET tab == tabs[tab_index + 1]
             active_id == tab.active_pane
         IN IF Len(tab.panes) <= 1 THEN tabs
            ELSE IF active_id < Len(tab.panes) /\ has_running_block(tab.panes[active_id + 1])
            THEN tabs
            ELSE LET panes == RemoveAt(tab.panes, active_id)
                     removed == remove_pane_from_layout(tab.root, active_id)
                     root == IF IsSome(removed) THEN Unwrap(removed) ELSE Leaf(0)
                 IN [tabs EXCEPT ![tab_index + 1] =
                        [tab EXCEPT
                           !.panes = panes,
                           !.root = reindex_layout(root, active_id),
                           !.active_pane = IF panes = <<>> THEN 0
                                           ELSE IF active_id > 0 THEN active_id - 1
                                           ELSE 0]]

\* Tant::close_tab_at: <<tabs, active_tab, closed>> after the call
close_tab_at(tabs, active, index) ==
    IF Len(tabs) <= 1 THEN <<tabs, active, FALSE>>
    ELSE IF index < Len(tabs)
            /\ \E i \in 1..Len(tabs[index + 1].panes) :
                  has_running_block(tabs[index + 1].panes[i])
    THEN <<tabs, active, FALSE>>
    ELSE IF index < Len(tabs)
    THEN LET rest == RemoveAt(tabs, index)
         IN <<rest,
              IF active >= Len(rest) THEN Len(rest) - 1
              ELSE IF active > index THEN active - 1
              ELSE active,
              TRUE>>
    ELSE <<tabs, active, FALSE>>

\* Tant::split_active_pane, when Pane::new succeeded: the tabs after the call
split_active_pane(tabs, tab_index, axis, id) ==
    IF tab_index >= Len(tabs) THEN tabs
    ELSE LET tab == tabs[tab_index + 1]
             working_directory ==
                 IF tab.active_pane < Len(tab.panes)
                 THEN tab.panes[tab.active_pane + 1].working_directory
                 ELSE CurrentDir
             new_pane_id == Len(tab.panes)
             sp == split_layout_node(tab.root, tab.active_pane, new_pane_id, axis)
         IN [tabs EXCEPT ![tab_index + 1] =
                [tab EXCEPT
                   !.panes = Append(@, Pane_new(id, working_directory)),
                   !.root = sp[1],
                   !.active_pane = IF sp[2] THEN new_pane_id ELSE @]]

\* the Tab create_new_tab pushes
new_tab(id) ==
    [root |-> Leaf(0), panes |-> <<Pane_new(id, HomeDir)>>, active_pane |-> 0]

\* the active pane of the active tab: <<tab index, pane index>>, 1-based, or None
active_pane_at(tabs, active) ==
    IF active < Len(tabs) /\ tabs[active + 1].active_pane < Len(tabs[active + 1].panes)
    THEN Some(<<active + 1, tabs[active + 1].active_pane + 1>>)
    ELSE None

\* isize::rem_euclid
rem_euclid(a, n) == a % n

----------------------------------------------------------------------------
(* The application: Tant::new without a saved session, and its messages *)

\* the panes ever created, the chunks ever given to parsers, the messages
\* ever handled that edit a block or the command line
MaxPaneIds == 2
MaxFed == 2
MaxEdits == 1

\* an empty HashMap
EmptyMap == <<>>

InitApp ==
    /\ layout = <<[root |-> Leaf(0), panes |-> <<Pane_new(0, CurrentDir)>>,
                   active_pane |-> 0]>>
    /\ active_tab = 0
    /\ render_cache = EmptyMap
    /\ row_hashes = EmptyMap
    /\ clock = 0
    /\ next_id = 1
    /\ fed = 0
    /\ edits = 0
    /\ applied = <<>>
    /\ drawn = <<>>

\* no pty mutex is held, nothing is written yet, no history search is open
InitWrite ==
    /\ pty_locked = {}
    /\ pty_in = <<>>
    /\ msgs = 0
    /\ contended = 0
    /\ history_search_active = FALSE

\* the reader pump Pane::new spawns for the first pane, about to read
InitPump ==
    /\ pump = [pc |-> "read", held |-> <<>>, last |-> "none"]
    /\ reads = <<>>
    /\ ticking = None

\* the chunks a pane's reader pump may read from its pty: a command-start
\* marker, a command's output with its command-end marker, and the three
\* read at once
PaneChunks ==
    { MarkerC(BEL),
      TextLs \o MarkerD(<<48>>, BEL),
      MarkerC(BEL) \o TextLs \o MarkerD(<<48>>, BEL) }

\* the reader pump of pane i of tab t sends one chunk it has read
ReaderSend ==
    /\ fed < MaxFed
    /\ \E t \in 1..Len(layout) : \E i \in 1..Len(layout[t].panes) :
         \E data \in PaneChunks :
            /\ Len(layout[t].panes[i].data_receiver) < CHANNEL_CAPACITY
            /\ layout' = [layout EXCEPT ![t].panes[i].data_receiver = Append(@, data)]
    /\ fed' = fed + 1
    /\ UNCHANGED <<active_tab, render_cache, row_hashes, clock, next_id, edits, applied>>

\* Message::Tick
Tick ==
    /\ \E adv \in Schedules :
         /\ layout' = tick(layout, clock, adv).tabs
         /\ clock' = tick(layout, clock, adv).ck.t
    /\ UNCHANGED <<active_tab, render_cache, row_hashes, next_id, fed, edits, applied>>

\* Message::SplitPaneHorizontal, Message::SplitPaneVertical
SplitPane ==
    /\ next_id < MaxPaneIds
    /\ \E axis \in {"Horizontal", "Vertical"} : \E spawned \in BOOLEAN :
         IF spawned
         THEN /\ layout' = split_active_pane(layout, active_tab, axis, next_id)
              /\ next_id' = next_id + 1
         ELSE UNCHANGED <<layout, next_id>>
    /\ UNCHANGED <<active_tab, render_cache, row_hashes, clock, fed, edits, applied>>

\* Message::ClosePane
ClosePane ==
    /\ layout' = close_active_pane(layout, active_tab)
    /\ UNCHANGED <<active_tab, render_cache, row_hashes, clock, next_id, fed, edits, applied>>

\* Message::NewTab
NewTab ==
    /\ next_id < MaxPaneIds
    /\ \E spawned \in BOOLEAN :
         IF spawned
         THEN /\ layout' = Append(layout, new_tab(next_id))
              /\ active_tab' = Len(layout')  - 1
              /\ render_cache' = EmptyMap
              /\ row_hashes' = EmptyMap
              /\ next_id' = next_id + 1
         ELSE UNCHANGED <<layout, active_tab, render_cache, row_hashes, next_id>>
    /\ UNCHANGED <<clock, fed, edits, applied>>

\* the effect of close_tab_at(index) on the application
DoCloseTabAt(index) ==
    LET r == close_tab_at(layout, active_tab, index) IN
    /\ layout' = r[1]
    /\ active_tab' = r[2]
    /\ render_cache' = IF r[3] THEN EmptyMap ELSE render_cache
    /\ row_hashes' = IF r[3] THEN EmptyMap ELSE row_hashes
    /\ UNCHANGED <<clock, next_id, fed, edits, applied>>

\* Message::CloseTab
CloseTab == DoCloseTabAt(active_tab)

\* Message::CloseTabAt(index)
CloseTabAt == \E index \in 0..Len(layout) : DoCloseTabAt(index)

\* Message::SelectTab(index)
SelectTab ==
    /\ \E index \in 0..Len(layout) :
         active_tab' = IF index < Len(layout) THEN index ELSE active_tab
    /\ UNCHANGED <<layout, render_cache, row_hashes, clock, next_id, fed, edits, applied>>

\* Message::PrevTab
PrevTab ==
    /\ active_tab' = IF layout # <<>> THEN rem_euclid(active_tab - 1, Len(layout))
                     ELSE active_tab
    /\ UNCHANGED <<layout, render_cache, row_hashes, clock, next_id, fed, edits, applied>>

\* Message::NextTab
NextTab ==
    /\ active_tab' = IF layout # <<>> THEN rem_euclid(active_tab + 1, Len(layout))
                     ELSE active_tab
    /\ UNCHANGED <<layout, render_cache, row_hashes, clock, next_id, fed, edits, applied>>

\* Message::SwitchPane(delta)
SwitchPane ==
    /\ \E delta \in {-1, 1} :
         layout' = IF active_tab < Len(layout) /\ layout[active_tab + 1].panes # <<>>
                   THEN [layout EXCEPT ![active_tab + 1].active_pane =
                           rem_euclid(@ + delta, Len(layout[active_tab + 1].panes))]
                   ELSE layout
    /\ UNCHANGED <<active_tab, render_cache, row_hashes, clock, next_id, fed, edits, applied>>

\* the history of the active pane of the active tab
ActiveHistory ==
    LET at == active_pane_at(layout, active_tab) IN
    IF IsSome(at) THEN layout[Unwrap(at)[1]].panes[Unwrap(at)[2]].history ELSE <<>>

\* a message that leaves the active pane with the history h, or changes
\* nothing when there is no active pane
SetHistory(h) ==
    LET at == active_pane_at(layout, active_tab) IN
    /\ edits < MaxEdits
    /\ edits' = edits + 1
    /\ layout' = IF IsSome(at)
                 THEN [layout EXCEPT ![Unwrap(at)[1]].panes[Unwrap(at)[2]].history = h]
                 ELSE layout
    /\ UNCHANGED <<active_tab, render_cache, row_hashes, clock, next_id, fed, applied>>

\* the history indices a message may carry: those of the active pane's
\* history, and one past its end
BlockIndices == 0..Len(ActiveHistory)

\* "ls", the text a user types
TextCmd == <<108, 115>>

\* a command edit that also resets the block's exit code
set_command_reset(block, new_cmd) == [block EXCEPT !.command = new_cmd, !.exit_code = None]

set_command(block, new_cmd) == [block EXCEPT !.command = new_cmd]
toggle_selected(block) == [block EXCEPT !.selected = ~@]
set_selected(block, value) == [block EXCEPT !.selected = value]
toggle_collapsed(block) == [block EXCEPT !.collapsed = ~@]
toggle_pinned(block) == [block EXCEPT !.pinned = ~@]

\* Message::UpdateCommand(index, new_cmd)
UpdateCommand ==
    \E index \in BlockIndices :
        SetHistory(IF index < Len(ActiveHistory)
                   THEN [ActiveHistory EXCEPT ![index + 1] = set_command(@, TextCmd)]
                   ELSE ActiveHistory)

\* Message::ToggleBlockSelected(index)
ToggleBlockSelected ==
    \E index \in BlockIndices :
        SetHistory(IF index < Len(ActiveHistory)
                   THEN [ActiveHistory EXCEPT ![index + 1] = toggle_selected(@)]
                   ELSE ActiveHistory)

\* Message::SelectAllBlocks
SelectAllBlocks ==
    SetHistory([k \in 1..Len(ActiveHistory) |-> set_selected(ActiveHistory[k], TRUE)])

\* Message::DeselectAllBlocks
DeselectAllBlocks ==
    SetHistory([k \in 1..Len(ActiveHistory) |-> set_selected(ActiveHistory[k], FALSE)])

\* Message::ToggleCollapsed(index)
ToggleCollapsed ==
    \E index \in BlockIndices :
        SetHistory(IF index < Len(ActiveHistory)
                   THEN [ActiveHistory EXCEPT ![index + 1] = toggle_collapsed(@)]
                   ELSE ActiveHistory)

\* Message::TogglePin(index)
TogglePin ==
    \E index \in BlockIndices :
        SetHistory(IF index < Len(ActiveHistory)
                   THEN [ActiveHistory EXCEPT ![index + 1] = toggle_pinned(@)]
                   ELSE ActiveHistory)

\* Message::UpdateCurrent(cmd) and Message::TerminalInput(input)
UpdateCurrent ==
    LET at == active_pane_at(layout, active_tab) IN
    /\ edits < MaxEdits
    /\ edits' = edits + 1
    /\ layout' = IF IsSome(at)
                 THEN [layout EXCEPT
                         ![Unwrap(at)[1]].panes[Unwrap(at)[2]].current_command = TextCmd]
                 ELSE layout
    /\ UNCHANGED <<active_tab, render_cache, row_hashes, clock, next_id, fed, applied>>

\* Message::RunCurrent
RunCurrent ==
    LET at == active_pane_at(layout, active_tab) IN
    /\ fed < MaxFed
    /\ fed' = fed + 1
    /\ layout' = IF IsSome(at)
                 THEN LET pane == layout[Unwrap(at)[1]].panes[Unwrap(at)[2]] IN
                      [layout EXCEPT
                         ![Unwrap(at)[1]].panes[Unwrap(at)[2]] =
                            [pane EXCEPT
                               !.parser = process(@, pane.current_command \o <<10>>),
                               !.current_command = <<>>]]
                 ELSE layout
    /\ UNCHANGED <<active_tab, render_cache, row_hashes, clock, next_id, edits, applied>>

Next ==
    \/ ReaderSend /\ UNCHANGED notApp
    \/ Tick /\ UNCHANGED notApp
    \/ SplitPane /\ UNCHANGED notApp
    \/ ClosePane /\ UNCHANGED notApp
    \/ NewTab /\ UNCHANGED notApp
    \/ CloseTab /\ UNCHANGED notApp
    \/ CloseTabAt /\ UNCHANGED notApp
    \/ SelectTab /\ UNCHANGED notApp
    \/ PrevTab /\ UNCHANGED notApp
    \/ NextTab /\ UNCHANGED notApp
    \/ SwitchPane /\ UNCHANGED notApp
    \/ UpdateCommand /\ UNCHANGED notApp
    \/ ToggleBlockSelected /\ UNCHANGED notApp
    \/ SelectAllBlocks /\ UNCHANGED notApp
    \/ DeselectAllBlocks /\ UNCHANGED notApp
    \/ ToggleCollapsed /\ UNCHANGED notApp
    \/ TogglePin /\ UNCHANGED notApp
    \/ UpdateCurrent /\ UNCHANGED notApp
    \/ RunCurrent /\ UNCHANGED notApp

\* no draw is in progress, no spawn has failed and nothing has been exported
InitDraw ==
    /\ canvas = None
    /\ cache_lock = {}
    /\ spawn_errors = 0
    /\ selection = <<>>
    /\ exported = None

Init == InitP /\ InitApp /\ InitPump /\ InitWrite /\ InitDraw
Spec == Init /\ [][Next]_vars

----------------------------------------------------------------------------
(* One parser given a byte stream in chunks *)

NextParser ==
    \/ ParserProcess /\ UNCHANGED notParser
    \/ TakeEvents /\ UNCHANGED notParser
SpecParser == Init /\ [][NextParser]_vars

NextCap ==
    \/ CapProcess /\ UNCHANGED notParser
    \/ TakeEvents /\ UNCHANGED notParser
SpecCap == Init /\ [][NextCap]_vars

----------------------------------------------------------------------------
(* The controller given parser events directly, on the first pane *)

\* the number of events of a SpecController behaviour
MaxEvents == 3

\* "/tmp"
TmpDir == "/tmp"

\* the values of ParserEvent the controller is given
ControllerEvents ==
    { EvPromptShown,
      EvCommandStart,
      EvCommand(TextCmd),
      EvCommandEnd(0),
      EvCommandEnd(1),
      EvDirectory(TmpDir),
      EvGitInfo(BranchA, Some("Clean")) }

\* the pane the controller works on
ThePane == layout[1].panes[1]

\* one iteration of `for event in events` of Message::Tick
ApplyEvent ==
    /\ Len(applied) < MaxEvents
    /\ \E event \in ControllerEvents : \E adv \in Schedules :
         /\ layout' = [layout EXCEPT ![1].panes[1] =
                           apply_event(ThePane, ClockAt(clock), adv, event).pane]
         /\ clock' = apply_event(ThePane, ClockAt(clock), adv, event).ck.t
         /\ applied' = Append(applied, event)
    /\ UNCHANGED <<active_tab, render_cache, row_hashes, next_id, fed, edits>>

NextController ==
    \/ ApplyEvent /\ UNCHANGED notApp
SpecController == Init /\ [][NextController]_vars

----------------------------------------------------------------------------
(* The raw-terminal canvas and its diff cache (renderer.rs) *)

\* TerminalParser::resize
resize(self, rows, cols) ==
    [self EXCEPT !.parser = vt100_set_size(@, rows, cols), !.dirty = TRUE]

\* HashMap::get and HashMap::insert
map_get(m, k) == IF k \in DOMAIN m THEN Some(m[k]) ELSE None
map_insert(m, k, v) == [x \in DOMAIN m \cup {k} |-> IF x = k THEN v ELSE m[x]]

\* the width of a cell of the canvas
CELL_WIDTH == 8

\* the ANSI palette, indices 0..15, in hundredths per channel
ANSI_PALETTE ==
    << <<0, 0, 0>>, <<80, 0, 0>>, <<0, 80, 0>>, <<80, 80, 0>>,
       <<0, 0, 80>>, <<80, 0, 80>>, <<0, 80, 80>>, <<90, 90, 90>>,
       <<50, 50, 50>>, <<100, 0, 0>>, <<0, 100, 0>>, <<100, 100, 0>>,
       <<0, 0, 100>>, <<100, 0, 100>>, <<0, 100, 100>>, <<100, 100, 100>> >>

color_to_iced(color) ==
    IF color # COLOR_DEFAULT /\ color < Len(ANSI_PALETTE)
    THEN ANSI_PALETTE[color + 1]
    ELSE <<90, 90, 90>>

default_bg_color == <<15, 15, 15>>

bgcolor_to_iced(color) ==
    IF color = COLOR_DEFAULT THEN default_bg_color ELSE color_to_iced(color)

\* what compute_row_hash feeds the hasher for cells col.. of the row: the
\* contents and the two colours of every cell that exists.  The hash is
\* taken for the sequence it hashes: two rows have one hash exactly when
\* the hasher was fed the same values
RECURSIVE row_hash_from(_, _, _, _)
row_hash_from(screen, row, col, cols) ==
    IF col >= cols THEN <<>>
    ELSE IF IsSome(vt100_cell(screen, row, col))
    THEN <<Unwrap(vt100_cell(screen, row, col)),
           vt100_fgcolor(screen, row, col),
           vt100_bgcolor(screen, row, col)>>
         \o row_hash_from(screen, row, col + 1, cols)
    ELSE row_hash_from(screen, row, col + 1, cols)

\* the hash that takes the contents only
compute_row_hash_contents(screen, row) ==
    LET h == row_hash_from(screen, row, 0, vt100_size(screen)[1])
    IN [i \in 1..(Len(h) \div 3) |-> h[3 * i - 2]]

compute_row_hash(screen, row) ==
    row_hash_from(screen, row, 0, vt100_size(screen)[1])

\* the inner loop of compute_runs: the first column from col on that has
\* no cell or a cell of other colours than fg, bg
RECURSIVE run_end(_, _, _, _, _, _)
run_end(screen, row, col, cols, fg, bg) ==
    IF col >= cols THEN col
    ELSE IF IsSome(vt100_cell(screen, row, col))
            /\ color_to_iced(vt100_fgcolor(screen, row, col)) = fg
            /\ bgcolor_to_iced(vt100_bgcolor(screen, row, col)) = bg
    THEN run_end(screen, row, col + 1, cols, fg, bg)
    ELSE col

\* the contents of the cells start_col..end - 1 of the row, pushed in order
RECURSIVE run_text(_, _, _, _)
run_text(screen, row, start_col, end) ==
    IF start_col >= end THEN <<>>
    ELSE Unwrap(vt100_cell(screen, row, start_col))
         \o run_text(screen, row, start_col + 1, end)

\* the StyleRun that starts at start_col and ends before end
style_run(screen, row, start_col, end, cell_width) ==
    [text |-> run_text(screen, row, start_col, end),
     fg |-> color_to_iced(vt100_fgcolor(screen, row, start_col)),
     bg |-> bgcolor_to_iced(vt100_bgcolor(screen, row, start_col)),
     x |-> start_col * cell_width,
     width |-> (end - start_col) * cell_width]

\* the outer loop of compute_runs from column col on
RECURSIVE runs_from(_, _, _, _, _)
runs_from(screen, row, col, cols, cell_width) ==
    IF col >= cols THEN <<>>
    ELSE IF IsSome(vt100_cell(screen, row, col))
    THEN <<style_run(screen, row, col,
                     run_end(screen, row, col + 1, cols,
                             color_to_iced(vt100_fgcolor(screen, row, col)),
                             bgcolor_to_iced(vt100_bgcolor(screen, row, col))),
                     cell_width)>>
         \o runs_from(screen, row,
                      run_end(screen, row, col + 1, cols,
                              color_to_iced(vt100_fgcolor(screen, row, col)),
                              bgcolor_to_iced(vt100_bgcolor(screen, row, col))),
                      cols, cell_width)
    ELSE runs_from(screen, row, col + 1, cols, cell_width)

compute_runs(screen, row, cell_width) ==
    runs_from(screen, row, 0, vt100_size(screen)[1], cell_width)

\* what a render pass leaves of one row: its key, its fresh hash, the hash
\* stored before, whether compute_runs ran, and the runs given to draw_runs
\* (None when nothing was drawn)
DrawnRow(key, hash, stored, recomputed, runs) ==
    [key |-> key, hash |-> hash, stored |-> stored,
     recomputed |-> recomputed, runs |-> runs]

\* the body of the row loop of draw that recomputes on a hit too
draw_row_forced(st, screen, tab_id, pane_id, row) ==
    [cache |-> map_insert(st.cache, <<tab_id, pane_id, row>>,
                          compute_runs(screen, row, CELL_WIDTH)),
     hashes |-> map_insert(st.hashes, <<tab_id, pane_id, row>>,
                           compute_row_hash(screen, row)),
     out |-> Append(st.out,
                DrawnRow(<<tab_id, pane_id, row>>, compute_row_hash(screen, row),
                         map_get(st.hashes, <<tab_id, pane_id, row>>), TRUE,
                         Some(compute_runs(screen, row, CELL_WIDTH))))]

\* the body of the row loop of draw that stores the hash of a recomputed
\* row and not its runs
draw_row_hash_only(st, screen, tab_id, pane_id, row) ==
    IF map_get(st.hashes, <<tab_id, pane_id, row>>) # Some(compute_row_hash(screen, row))
    THEN [cache |-> st.cache,
          hashes |-> map_insert(st.hashes, <<tab_id, pane_id, row>>,
                                compute_row_hash(screen, row)),
          out |-> Append(st.out,
                     DrawnRow(<<tab_id, pane_id, row>>, compute_row_hash(screen, row),
                              map_get(st.hashes, <<tab_id, pane_id, row>>), TRUE,
                              Some(compute_runs(screen, row, CELL_WIDTH))))]
    ELSE [st EXCEPT !.out = Append(@,
                     DrawnRow(<<tab_id, pane_id, row>>, compute_row_hash(screen, row),
                              map_get(st.hashes, <<tab_id, pane_id, row>>), FALSE,
                              map_get(st.cache, <<tab_id, pane_id, row>>)))]

\* the body of the row loop of TerminalCanvas::draw
draw_row(st, screen, tab_id, pane_id, row) ==
    IF map_get(st.hashes, <<tab_id, pane_id, row>>) # Some(compute_row_hash(screen, row))
    THEN [cache |-> map_insert(st.cache, <<tab_id, pane_id, row>>,
                               compute_runs(screen, row, CELL_WIDTH)),
          hashes |-> map_insert(st.hashes, <<tab_id, pane_id, row>>,
                                compute_row_hash(screen, row)),
          out |-> Append(st.out,
                     DrawnRow(<<tab_id, pane_id, row>>, compute_row_hash(screen, row),
                              map_get(st.hashes, <<tab_id, pane_id, row>>), TRUE,
                              Some(compute_runs(screen, row, CELL_WIDTH))))]
    ELSE [st EXCEPT !.out = Append(@,
                     DrawnRow(<<tab_id, pane_id, row>>, compute_row_hash(screen, row),
                              map_get(st.hashes, <<tab_id, pane_id, row>>), FALSE,
                              map_get(st.cache, <<tab_id, pane_id, row>>)))]

\* TerminalCanvas::draw from row on: `for row in 0..rows`, rows = size.1
RECURSIVE draw_rows(_, _, _, _, _)
draw_rows(st, screen, tab_id, pane_id, row) ==
    IF row >= vt100_size(screen)[2] THEN st
    ELSE draw_rows(draw_row(st, screen, tab_id, pane_id, row),
                   screen, tab_id, pane_id, row + 1)

draw(st, screen, tab_id, pane_id) == draw_rows(st, screen, tab_id, pane_id, 0)

\* Tant::build_layout_view with the canvases of its leaves drawn: a leaf
\* has a canvas when its pane exists and is on the alternate screen
RECURSIVE build_layout_view(_, _, _, _)
build_layout_view(st, node, panes, tab_id) ==
    IF node.kind = "Leaf"
    THEN IF node.pane_id < Len(panes)
            /\ is_alt_screen_active(panes[node.pane_id + 1].parser)
         THEN draw(st, panes[node.pane_id + 1].parser.parser, tab_id, node.pane_id)
         ELSE st
    ELSE build_layout_view(build_layout_view(st, node.left, panes, tab_id),
                           node.right, panes, tab_id)

\* Tant::view and the draw of every canvas it builds
view(tabs, active, cache, hashes) ==
    IF active < Len(tabs)
    THEN build_layout_view([cache |-> cache, hashes |-> hashes, out |-> <<>>],
                           tabs[active + 1].root, tabs[active + 1].panes, active)
    ELSE [cache |-> cache, hashes |-> hashes, out |-> <<>>]

\* TerminalRenderer::cell_size under a theme whose line_height * font_size
\* is 16: (cell_w, cell_h)
CELL_HEIGHT == 16
cell_size == <<CELL_WIDTH, CELL_HEIGHT>>

\* the chunks fed to the panes of a SpecRender behaviour, and the window
\* sizes of its Resize messages, in pixels
MaxRenderFed == 2
RenderWindows ==
    { <<ScreenCols * CELL_WIDTH, ScreenRows * CELL_HEIGHT>>,
      <<ScreenRows * CELL_WIDTH, ScreenCols * CELL_HEIGHT>> }

\* CSI 31 m
SGR_RED == <<27, 91, 51, 49, 109>>

\* what full-screen programs write: one enters the alternate screen and
\* prints "a", another enters it and prints "b"; one returns to the margin
\* and prints "a" in red; one leaves the alternate screen
RenderChunks ==
    { ALT_SCREEN_ENTER \o <<97>>,
      ALT_SCREEN_ENTER \o <<98>>,
      <<13>> \o SGR_RED \o <<97>>,
      ALT_SCREEN_EXIT }

\* the reader pump of pane i of tab t sends one chunk of a full-screen program
RenderSend ==
    /\ fed < MaxRenderFed
    /\ \E t \in 1..Len(layout) : \E i \in 1..Len(layout[t].panes) :
         \E data \in RenderChunks :
            /\ Len(layout[t].panes[i].data_receiver) < CHANNEL_CAPACITY
            /\ layout' = [layout EXCEPT ![t].panes[i].data_receiver = Append(@, data)]
    /\ fed' = fed + 1
    /\ UNCHANGED <<active_tab, render_cache, row_hashes, clock, next_id, edits, applied>>

\* the panes of a tab after `pane.parser.resize(rows, cols)` on each
resize_panes(panes, rows, cols) ==
    [i \in 1..Len(panes) |->
        [panes[i] EXCEPT !.parser = resize(panes[i].parser, rows, cols)]]

\* a clear that leaves the map as it is
clear_nothing(m) == m

\* HashMap::clear
clear(m) == EmptyMap

\* Message::Resize(width, height)
Resize ==
    /\ \E window \in RenderWindows :
         layout' = [t \in 1..Len(layout) |->
                       [layout[t] EXCEPT !.panes =
                           resize_panes(layout[t].panes,
                                        window[2] \div cell_size[2],
                                        window[1] \div cell_size[1])]]
    /\ render_cache' = clear(render_cache)
    /\ row_hashes' = clear(row_hashes)
    /\ UNCHANGED <<active_tab, clock, next_id, fed, edits, applied>>

\* one frame: Tant::view and TerminalCanvas::draw for each canvas of it
Render ==
    /\ render_cache' = view(layout, active_tab, render_cache, row_hashes).cache
    /\ row_hashes' = view(layout, active_tab, render_cache, row_hashes).hashes
    /\ drawn' = view(layout, active_tab, render_cache, row_hashes).out
    /\ UNCHANGED <<layout, active_tab, clock, next_id, fed, edits, applied>>

NextRender ==
    \/ RenderSend /\ UNCHANGED notApp
    \/ Tick /\ UNCHANGED notApp
    \/ Resize /\ UNCHANGED notApp
    \/ SplitPane /\ UNCHANGED notApp
    \/ ClosePane /\ UNCHANGED notApp
    \/ NewTab /\ UNCHANGED notApp
    \/ CloseTab /\ UNCHANGED notApp
    \/ SelectTab /\ UNCHANGED notApp
    \/ SwitchPane /\ UNCHANGED notApp
    \/ Render /\ UNCHANGED notRender
SpecRender == Init /\ [][NextRender]_vars

----------------------------------------------------------------------------
(* One TerminalCanvas::draw call, row by row.  Tant::view gives every leaf *)
(* on the alternate screen a TerminalCanvas that owns a clone of the pane's *)
(* screen; its draw takes the guards of both cache mutexes and then runs   *)
(* its row loop.  view, draw and update run on the one thread of the       *)
(* control loop, so no message is handled while a draw is in progress.     *)

\* the struct view builds (renderer.rs, `Canvas::new(TerminalCanvas { .. })`)
TerminalCanvas(screen, tab_id, pane_id) ==
    [screen |-> screen, tab_id |-> tab_id, pane_id |-> pane_id]

\* the canvases build_layout_view makes for the leaves of a layout tree
RECURSIVE layout_canvases(_, _, _)
layout_canvases(node, panes, tab_id) ==
    IF node.kind = "Leaf"
    THEN IF node.pane_id < Len(panes)
            /\ is_alt_screen_active(panes[node.pane_id + 1].parser)
         THEN {TerminalCanvas(panes[node.pane_id + 1].parser.parser, tab_id, node.pane_id)}
         ELSE {}
    ELSE layout_canvases(node.left, panes, tab_id)
            \cup layout_canvases(node.right, panes, tab_id)

\* the canvases of the frame Tant::view builds
view_canvases(tabs, active) ==
    IF active < Len(tabs)
    THEN layout_canvases(tabs[active + 1].root, tabs[active + 1].panes, active)
    ELSE {}

\* the two mutexes of the diff cache
CACHE_MUTEXES == {"render_cache", "row_hashes"}

\* draw up to its loop: `self.render_cache.lock().unwrap()` and
\* `self.row_hashes.lock().unwrap()`, whose guards live to the end of draw
DrawBegin ==
    /\ canvas = None
    /\ cache_lock = {}
    /\ \E c \in view_canvases(layout, active_tab) :
          canvas' = Some([self |-> c, row |-> 0])
    /\ cache_lock' = CACHE_MUTEXES
    /\ drawn' = <<>>
    /\ UNCHANGED appVars

\* one iteration of `for row in 0..rows`
DrawRow ==
    /\ IsSome(canvas)
    /\ Unwrap(canvas).row < vt100_size(Unwrap(canvas).self.screen)[2]
    /\ cache_lock = CACHE_MUTEXES
    /\ LET c == Unwrap(canvas)
           st == draw_row([cache |-> render_cache, hashes |-> row_hashes, out |-> drawn],
                          c.self.screen, c.self.tab_id, c.self.pane_id, c.row)
       IN /\ render_cache' = st.cache
          /\ row_hashes' = st.hashes
          /\ drawn' = st.out
          /\ canvas' = Some([c EXCEPT !.row = @ + 1])
    /\ UNCHANGED <<cache_lock, layout, active_tab, clock, next_id, fed, edits, applied>>

\* the loop is over and draw returns: both guards are dropped
DrawEnd ==
    /\ IsSome(canvas)
    /\ Unwrap(canvas).row >= vt100_size(Unwrap(canvas).self.screen)[2]
    /\ canvas' = None
    /\ cache_lock' = {}
    /\ UNCHANGED <<appVars, drawn>>

\* the variables a step of draw leaves alone
notDraw == <<parserVars, pumpVars, writeVars, spawnVars,
    exportVars>>

NextDraw ==
    \/ RenderSend /\ UNCHANGED notApp
    \/ canvas = None /\ Tick /\ UNCHANGED notApp
    \/ canvas = None /\ Resize /\ UNCHANGED notApp
    \/ canvas = None /\ SplitPane /\ UNCHANGED notApp
    \/ canvas = None /\ SwitchPane /\ UNCHANGED notApp
    \/ DrawBegin /\ UNCHANGED notDraw
    \/ DrawRow /\ UNCHANGED notDraw
    \/ DrawEnd /\ UNCHANGED notDraw
SpecDraw == Init /\ [][NextDraw]_vars

----------------------------------------------------------------------------
(* Pane creation that can fail.  Pane::new returns Err when               *)
(* PtyManager::new_with_cwd fails (`?`); split_active_pane and             *)
(* create_new_tab match on its result.                                     *)

\* the panes ever created and the failed Pane::new calls of a SpecSpawn
\* behaviour
MaxSpawnIds == 4
MaxSpawnErrors == 2

\* a split that goes on with the layout change when Pane::new failed
try_split_active_pane_anyway(tabs, tab_index, axis, spawned, id) ==
    split_active_pane(tabs, tab_index, axis, id)

\* Tant::split_active_pane, spawned telling whether Pane::new returned Ok
try_split_active_pane(tabs, tab_index, axis, spawned, id) ==
    IF spawned THEN split_active_pane(tabs, tab_index, axis, id) ELSE tabs

\* Tant::create_new_tab: <<tabs, active_tab, created>> after the call
create_new_tab(tabs, active, spawned, id) ==
    IF spawned
    THEN <<Append(tabs, new_tab(id)), Len(tabs), TRUE>>
    ELSE <<tabs, active, FALSE>>

\* Message::SplitPaneHorizontal, Message::SplitPaneVertical
TrySplitPane ==
    /\ next_id < MaxSpawnIds
    /\ active_tab < Len(layout)
    /\ \E axis \in {"Horizontal", "Vertical"} : \E spawned \in BOOLEAN :
         /\ spawned \/ spawn_errors < MaxSpawnErrors
         /\ layout' = try_split_active_pane(layout, active_tab, axis, spawned, next_id)
         /\ next_id' = IF spawned THEN next_id + 1 ELSE next_id
         /\ spawn_errors' = IF spawned THEN spawn_errors ELSE spawn_errors + 1
    /\ UNCHANGED <<active_tab, render_cache, row_hashes, clock, fed, edits, applied>>

\* Message::NewTab
TryNewTab ==
    /\ next_id < MaxSpawnIds
    /\ \E spawned \in BOOLEAN :
         LET r == create_new_tab(layout, active_tab, spawned, next_id) IN
         /\ spawned \/ spawn_errors < MaxSpawnErrors
         /\ layout' = r[1]
         /\ active_tab' = r[2]
         /\ render_cache' = IF r[3] THEN clear(render_cache) ELSE render_cache
         /\ row_hashes' = IF r[3] THEN clear(row_hashes) ELSE row_hashes
         /\ next_id' = IF spawned THEN next_id + 1 ELSE next_id
         /\ spawn_errors' = IF spawned THEN spawn_errors ELSE spawn_errors + 1
    /\ UNCHANGED <<clock, fed, edits, applied>>

\* the variables a message that creates a pane leaves alone
notSpawn == <<parserVars, renderVars, pumpVars, writeVars, drawVars, exportVars>>

NextSpawn ==
    \/ TrySplitPane /\ UNCHANGED notSpawn
    \/ TryNewTab /\ UNCHANGED notSpawn
    \/ ClosePane /\ UNCHANGED notApp
    \/ CloseTab /\ UNCHANGED notApp
    \/ SelectTab /\ UNCHANGED notApp
    \/ SwitchPane /\ UNCHANGED notApp
SpecSpawn == Init /\ [][NextSpawn]_vars

----------------------------------------------------------------------------
(* Scrolling.  Tant::new with a saved session restores each pane's         *)
(* scroll_offset into a pane made by Pane::new, whose follow_mode is true; *)
(* Message::MouseWheel scrolls the active pane.                            *)

\* the largest scroll offset of a SpecScroll behaviour
MaxScroll == 2

\* a pane of session.json, with the fields Tant::new restores
SerializablePane(working_directory, scroll_offset) ==
    [history |-> <<>>, current_command |-> <<>>,
     working_directory |-> working_directory, scroll_offset |-> scroll_offset]

\* the pane Tant::new makes of a saved pane
restore_pane(id, saved_pane) ==
    [Pane_new(id, saved_pane.working_directory) EXCEPT
        !.history = saved_pane.history,
        !.current_command = saved_pane.current_command,
        !.working_directory = saved_pane.working_directory,
        !.scroll_offset = saved_pane.scroll_offset]

\* the tabs Tant::new makes of a saved session of one tab split in two
\* panes that were left at the scroll offsets a and b
restore_session(a, b) ==
    <<[root |-> Split("Vertical", Leaf(0), Leaf(1)),
       panes |-> <<restore_pane(0, SerializablePane(CurrentDir, a)),
                   restore_pane(1, SerializablePane(HomeDir, b))>>,
       active_pane |-> 0]>>

\* Tant::new with a saved session
InitRestored ==
    /\ \E a, b \in 0..MaxScroll : layout = restore_session(a, b)
    /\ active_tab = 0
    /\ render_cache = EmptyMap
    /\ row_hashes = EmptyMap
    /\ clock = 0
    /\ next_id = 2
    /\ fed = 0
    /\ edits = 0
    /\ applied = <<>>
    /\ drawn = <<>>

\* the arm of Message::MouseWheel for ScrollDelta::Lines { y } with a whole
\* number of lines, on one pane
mouse_wheel(pane, y) ==
    IF y > 0
    THEN [pane EXCEPT !.scroll_offset = @ + y, !.follow_mode = FALSE]
    ELSE IF y < 0 /\ pane.scroll_offset > 0
    THEN LET offset == IF pane.scroll_offset > -y THEN pane.scroll_offset + y ELSE 0
         IN [pane EXCEPT !.scroll_offset = offset,
                         !.follow_mode = IF offset = 0 THEN TRUE ELSE @]
    ELSE pane

\* Message::MouseWheel(delta)
MouseWheel ==
    /\ \E y \in {-1, 1} :
         LET at == active_pane_at(layout, active_tab) IN
         /\ IsSome(at)
         /\ y > 0 => layout[Unwrap(at)[1]].panes[Unwrap(at)[2]].scroll_offset < MaxScroll
         /\ layout' = [layout EXCEPT ![Unwrap(at)[1]].panes[Unwrap(at)[2]] =
                          mouse_wheel(@, y)]
    /\ UNCHANGED <<active_tab, render_cache, row_hashes, clock, next_id, fed, edits, applied>>

NextScroll ==
    \/ ReaderSend /\ UNCHANGED notApp
    \/ Tick /\ UNCHANGED notApp
    \/ MouseWheel /\ UNCHANGED notApp
    \/ SwitchPane /\ UNCHANGED notApp
InitScroll == InitP /\ InitRestored /\ InitPump /\ InitWrite /\ InitDraw
SpecScroll == InitScroll /\ [][NextScroll]_vars

----------------------------------------------------------------------------
(* The reader pump of the first pane and the tick that drains its channel *)
(* (pty.rs, PtyManager::spawn_reader).  The pump runs on the runtime's     *)
(* threads, the tick in the control loop: each step of the pump and each   *)
(* try_recv of the tick is one action.  pump.pc is where the pump is: at   *)
(* its read, at its send (holding the chunk pump.held), in its backoff     *)
(* sleep, or out of its loop; pump.last is what its last read returned.    *)

\* the reads that return data in a SpecPump and in a SpecPumpFair behaviour
MaxReads == 102
MaxFairReads == 2

\* the results of reader.read(&mut buf)
ReadResults == {"data", "eof", "would_block", "error"}

\* the bytes of the n-th read that returns data: the child writes
\* "abcabc..." and each read returns one byte of it
ReadData(n) == <<97 + (n % 3)>>

\* where the pane the pump belongs to is: <<tab, pane>>, 1-based, or None
\* once the pane (and with it the receiver of its channel) is dropped
PumpPane ==
    IF \E t \in 1..Len(layout) : \E i \in 1..Len(layout[t].panes) :
          layout[t].panes[i].id = 0
    THEN Some(CHOOSE at \in { <<t, i>> : t \in 1..Len(layout), i \in 1..MaxPaneIds } :
                /\ at[2] <= Len(layout[at[1]].panes)
                /\ layout[at[1]].panes[at[2]].id = 0)
    ELSE None

\* the pump after a read that skips the chunk it returned
pump_on_read_skip(pm, result, data) ==
    CASE result = "data" -> [pc |-> "read", held |-> <<>>, last |-> result]
      [] result = "would_block" -> [pc |-> "sleep", held |-> <<>>, last |-> result]
      [] OTHER -> [pc |-> "exited", held |-> <<>>, last |-> result]

\* the pump after a read that takes WouldBlock for an error
pump_on_read_strict(pm, result, data) ==
    CASE result = "data" -> [pc |-> "send", held |-> data, last |-> result]
      [] OTHER -> [pc |-> "exited", held |-> <<>>, last |-> result]

\* `match reader.read(&mut buf)`: the pump after the read
pump_on_read(pm, result, data) ==
    CASE result = "data" -> [pc |-> "send", held |-> data, last |-> result]
      [] result = "would_block" -> [pc |-> "sleep", held |-> <<>>, last |-> result]
      [] OTHER -> [pc |-> "exited", held |-> <<>>, last |-> result]

\* reader.read(&mut buf), when at most max reads return data
PumpReadUpTo(max) ==
    /\ pump.pc = "read"
    /\ \E result \in ReadResults :
         /\ result = "data" => Len(reads) < max
         /\ pump' = pump_on_read(pump, result, ReadData(Len(reads)))
         /\ reads' = IF result = "data" THEN Append(reads, ReadData(Len(reads)))
                     ELSE reads
    /\ UNCHANGED <<appVars, ticking>>

PumpRead == PumpReadUpTo(MaxReads)
FairRead == PumpReadUpTo(MaxFairReads)

\* sender.send(data).await: it fails when the receiver is dropped, it waits
\* while the channel is full, it queues the chunk otherwise
PumpSend ==
    /\ pump.pc = "send"
    /\ IF ~IsSome(PumpPane)
       THEN /\ pump' = [pump EXCEPT !.pc = "exited", !.held = <<>>]
            /\ UNCHANGED layout
       ELSE /\ Len(layout[Unwrap(PumpPane)[1]].panes[Unwrap(PumpPane)[2]].data_receiver)
                 < CHANNEL_CAPACITY
            /\ layout' = [layout EXCEPT
                            ![Unwrap(PumpPane)[1]].panes[Unwrap(PumpPane)[2]].data_receiver
                                = Append(@, pump.held)]
            /\ pump' = [pump EXCEPT !.pc = "read", !.held = <<>>]
    /\ UNCHANGED <<active_tab, render_cache, row_hashes, clock, next_id, fed,
                   edits, applied, reads, ticking>>

\* tokio::time::sleep(10 ms).await is over
PumpWake ==
    /\ pump.pc = "sleep"
    /\ pump' = [pump EXCEPT !.pc = "read"]
    /\ UNCHANGED <<appVars, reads, ticking>>

\* the pane the tick is at: the first pane of the first tab when it starts
TickAt ==
    IF IsSome(ticking) THEN Unwrap(ticking)
    ELSE [t |-> 1, i |-> 1, has_new_data |-> FALSE]

\* a receive that returns without a chunk only when the channel is empty
\* and its sender is gone, as the waiting recv does
recv_is_err_blocking(chunks, pm) == chunks = <<>> /\ pm.pc = "exited"

\* pane.data_receiver.try_recv() returns Err: the channel is empty, with
\* the sender alive or gone
recv_is_err(chunks, pm) == chunks = <<>>

\* one turn of `while let Ok(data) = pane.data_receiver.try_recv()`:
\* pane.parser.process(&data)
TickRecv ==
    /\ layout[TickAt.t].panes[TickAt.i].data_receiver # <<>>
    /\ layout' = [layout EXCEPT ![TickAt.t].panes[TickAt.i] =
                     [@ EXCEPT !.parser = process(@, Head(layout[TickAt.t].panes[TickAt.i].data_receiver)),
                               !.data_receiver = Tail(@)]]
    /\ ticking' = Some([TickAt EXCEPT !.has_new_data = TRUE])
    /\ UNCHANGED <<active_tab, render_cache, row_hashes, clock, next_id, fed,
                   edits, applied, pump, reads>>

\* the tabs after the tick is done with the pane it is at
tick_pane_over(tabs, at, done) ==
    IF at.t = Len(tabs) /\ at.i = Len(tabs[at.t].panes)
    THEN follow_new_data([tabs EXCEPT ![at.t].panes[at.i] = done.pane],
                         at.has_new_data)
    ELSE [tabs EXCEPT ![at.t].panes[at.i] = done.pane]

\* the pane the tick goes to after the one it is at, None after the last
tick_next(tabs, at) ==
    IF at.i < Len(tabs[at.t].panes) THEN Some([at EXCEPT !.i = @ + 1])
    ELSE IF at.t < Len(tabs) THEN Some([at EXCEPT !.t = @ + 1, !.i = 1])
    ELSE None

\* try_recv finds the channel of the pane empty: the tick takes the pane's
\* events, applies them and goes to the next pane; after the last pane it
\* scrolls the following panes and returns
TickPaneDone ==
    /\ recv_is_err(layout[TickAt.t].panes[TickAt.i].data_receiver, pump)
    /\ \E adv \in Schedules :
         LET pane == layout[TickAt.t].panes[TickAt.i]
             done == drain_events(pane, ClockAt(clock), adv, take_events(pane.parser))
         IN /\ layout' = tick_pane_over(layout, TickAt, done)
            /\ clock' = done.ck.t
    /\ ticking' = tick_next(layout, TickAt)
    /\ UNCHANGED <<active_tab, render_cache, row_hashes, next_id, fed, edits,
                   applied, pump, reads>>

\* the control loop is between two messages
LoopIdle == ticking = None

\* a step of the pump, and a step of a tick in progress
PumpStep == (FairRead \/ PumpSend \/ PumpWake) /\ UNCHANGED notPump
TickStep == IsSome(ticking) /\ (TickRecv \/ TickPaneDone)
                /\ UNCHANGED notPump

\* the pump and the tick of one pane
NextPump ==
    \/ PumpRead /\ UNCHANGED notPump
    \/ PumpSend /\ UNCHANGED notPump
    \/ PumpWake /\ UNCHANGED notPump
    \/ TickRecv /\ UNCHANGED notPump
    \/ TickPaneDone /\ UNCHANGED notPump
SpecPump == Init /\ [][NextPump]_vars

\* the pump and the tick with tabs opened and closed between ticks; the
\* runtime keeps running the pump's task, and the control loop a handler
\* it has started
NextPumpFair ==
    \/ FairRead /\ UNCHANGED notPump
    \/ PumpSend /\ UNCHANGED notPump
    \/ PumpWake /\ UNCHANGED notPump
    \/ TickRecv /\ UNCHANGED notPump
    \/ TickPaneDone /\ UNCHANGED notPump
    \/ LoopIdle /\ NewTab /\ UNCHANGED notApp
    \/ LoopIdle /\ CloseTabAt /\ UNCHANGED notApp
SpecPumpFair ==
    Init /\ [][NextPumpFair]_vars /\ WF_vars(PumpStep) /\ WF_vars(TickStep)

----------------------------------------------------------------------------
(* The messages that write to the pty of the active pane (main.rs).  Each  *)
(* takes the pane's pty mutex with try_lock and writes only when it got    *)
(* it.  No code of the repository holds the mutex outside Tant::update;    *)
(* pty_locked stands for any other holder of a clone of the Arc.           *)

\* the write messages and the chunks of a SpecWrite behaviour
MaxMsgs == 2
MaxWriteFed == 1

\* "\r", and the bracketed-paste brackets ESC [ 200 ~ and ESC [ 201 ~
CR == <<13>>
PASTE_START == <<27, 91, 50, 48, 48, 126>>
PASTE_END == <<27, 91, 50, 48, 49, 126>>

\* Tant::key_to_bytes for the keys of the model: Enter, and a key with no bytes
KeyEnter == "Enter"
KeyF1 == "F1"
key_to_bytes(key) == IF key = KeyEnter THEN CR ELSE <<>>

\* the active pane, when there is one
ActivePane ==
    layout[Unwrap(active_pane_at(layout, active_tab))[1]]
        .panes[Unwrap(active_pane_at(layout, active_tab))[2]]

\* a write that takes the mutex with the waiting lock
write_pty_waiting(log, locked, id, bytes) ==
    IF bytes # <<>> THEN Append(log, [pane |-> id, bytes |-> bytes]) ELSE log

\* `if let Ok(mut pty) = pane.pty.try_lock() { pty.writer().write_all(bytes);
\* pty.writer().flush() }`: the writes after it
write_pty(log, locked, id, bytes) ==
    IF id \in locked THEN log
    ELSE IF bytes # <<>> THEN Append(log, [pane |-> id, bytes |-> bytes])
    ELSE log

\* the count of failed try_locks after one more try_lock by the handler
count_contended(n, locked, id) == IF id \in locked THEN n + 1 ELSE n

\* a message that, when `tries`, takes the mutex of the active pane's pty
\* with try_lock and writes bytes; it changes nothing else
WriteMessage(tries, bytes) ==
    /\ msgs < MaxMsgs
    /\ msgs' = msgs + 1
    /\ IF tries /\ IsSome(active_pane_at(layout, active_tab))
       THEN /\ pty_in' = write_pty(pty_in, pty_locked, ActivePane.id, bytes)
            /\ contended' = count_contended(contended, pty_locked, ActivePane.id)
       ELSE UNCHANGED <<pty_in, contended>>
    /\ UNCHANGED <<appVars, pty_locked, history_search_active>>

\* Message::KeyPress(key, modifiers)
KeyPress == \E key \in {KeyEnter, KeyF1} : WriteMessage(TRUE, key_to_bytes(key))

\* Message::TextInput(text); the search query is not part of the model
TextInput ==
    IF history_search_active
    THEN /\ msgs < MaxMsgs
         /\ msgs' = msgs + 1
         /\ UNCHANGED <<appVars, pty_locked, pty_in, contended, history_search_active>>
    ELSE WriteMessage(TRUE, TextCmd)

\* Message::Paste(text)
Paste == WriteMessage(TRUE, PASTE_START \o TextCmd \o PASTE_END)

\* Message::RerunCommand(index)
RerunCommand ==
    \E index \in BlockIndices :
        WriteMessage(index < Len(ActiveHistory),
                     IF index < Len(ActiveHistory)
                     THEN ActiveHistory[index + 1].command \o CR
                     ELSE <<>>)

\* PaletteAction::RunPinnedCommand(index)
RunPinnedCommand ==
    \E index \in BlockIndices :
        WriteMessage(index < Len(ActiveHistory) /\ ActiveHistory[index + 1].pinned,
                     IF index < Len(ActiveHistory)
                     THEN ActiveHistory[index + 1].command \o CR
                     ELSE <<>>)

\* Message::TerminalSubmit: the command line is cleared only with the mutex
TerminalSubmit ==
    /\ msgs < MaxMsgs
    /\ msgs' = msgs + 1
    /\ IF IsSome(active_pane_at(layout, active_tab))
       THEN /\ pty_in' = write_pty(pty_in, pty_locked, ActivePane.id,
                                   ActivePane.current_command \o CR)
            /\ contended' = count_contended(contended, pty_locked, ActivePane.id)
            /\ layout' = IF ActivePane.id \in pty_locked THEN layout
                         ELSE [layout EXCEPT
                                 ![Unwrap(active_pane_at(layout, active_tab))[1]]
                                    .panes[Unwrap(active_pane_at(layout, active_tab))[2]]
                                    .current_command = <<>>]
       ELSE UNCHANGED <<pty_in, contended, layout>>
    /\ UNCHANGED <<active_tab, render_cache, row_hashes, clock, next_id, fed,
                   edits, applied, pty_locked, history_search_active>>

\* Message::StartHistorySearch and Message::CancelHistorySearch
StartHistorySearch ==
    /\ history_search_active' = TRUE
    /\ UNCHANGED <<appVars, pty_locked, pty_in, msgs, contended>>

CancelHistorySearch ==
    /\ history_search_active' = FALSE
    /\ UNCHANGED <<appVars, pty_locked, pty_in, msgs, contended>>

\* another holder of a pane's pty takes its mutex, and gives it back
LockElsewhere ==
    /\ \E t \in 1..Len(layout) : \E i \in 1..Len(layout[t].panes) :
         /\ layout[t].panes[i].id \notin pty_locked
         /\ pty_locked' = pty_locked \cup {layout[t].panes[i].id}
    /\ UNCHANGED <<appVars, pty_in, msgs, contended, history_search_active>>

UnlockElsewhere ==
    /\ \E id \in pty_locked : pty_locked' = pty_locked \ {id}
    /\ UNCHANGED <<appVars, pty_in, msgs, contended, history_search_active>>

\* the reader pump of the active pane's tab sends one chunk
WriteSend ==
    /\ fed < MaxWriteFed
    /\ ReaderSend

notWrite == <<parserVars, renderVars, pumpVars, drawVars, spawnVars,
    exportVars>>

NextWrite ==
    \/ WriteSend /\ UNCHANGED notApp
    \/ Tick /\ UNCHANGED notApp
    \/ TogglePin /\ UNCHANGED notApp
    \/ UpdateCurrent /\ UNCHANGED notApp
    \/ KeyPress /\ UNCHANGED notWrite
    \/ TextInput /\ UNCHANGED notWrite
    \/ Paste /\ UNCHANGED notWrite
    \/ RerunCommand /\ UNCHANGED notWrite
    \/ RunPinnedCommand /\ UNCHANGED notWrite
    \/ TerminalSubmit /\ UNCHANGED notWrite
    \/ StartHistorySearch /\ UNCHANGED notWrite
    \/ CancelHistorySearch /\ UNCHANGED notWrite
    \/ LockElsewhere /\ UNCHANGED notWrite
    \/ UnlockElsewhere /\ UNCHANGED notWrite
SpecWrite == Init /\ [][NextWrite]_vars

----------------------------------------------------------------------------
(* The parser given alternate-screen sequences and directory markers *)

\* the number of process() calls of a SpecExt behaviour
MaxExtCalls == 3

\* "/tmp" as bytes
TmpPath == <<47, 116, 109, 112>>

\* a directory-change marker for an absolute path in the two forms shells
\* emit, OSC 7 ; file://<path> BEL and OSC 1337 ; CurrentDir=<path> BEL; the
\* parser names no form of its own
DirMarkerOsc7(path) ==
    <<27, 93, 55, 59, 102, 105, 108, 101, 58, 47, 47>> \o path \o BEL
DirMarkerOsc1337(path) ==
    <<27, 93, 49, 51, 51, 55, 59, 67, 117, 114, 114, 101, 110, 116, 68, 105, 114, 61>>
        \o path \o BEL

\* the chunks a process() call of SpecExt may be given: the two
\* alternate-screen sequences, the first split in two, plain output, a
\* prompt marker, and the directory markers
ExtChunks ==
    { ALT_SCREEN_ENTER,
      ALT_SCREEN_EXIT,
      SubSeq(ALT_SCREEN_ENTER, 1, 4),
      SubSeq(ALT_SCREEN_ENTER, 5, 8),
      TextLs,
      MarkerA(BEL),
      DirMarkerOsc7(TmpPath),
      DirMarkerOsc1337(TmpPath) }

ExtProcess ==
    /\ calls < MaxExtCalls
    /\ \E data \in ExtChunks : DoProcess(data)

NextExt ==
    \/ ExtProcess /\ UNCHANGED notParser
    \/ TakeEvents /\ UNCHANGED notParser
SpecExt == Init /\ [][NextExt]_vars

----------------------------------------------------------------------------
(* The parser given git-info markers with payloads of several shapes *)

\* the number of process() calls of a SpecGit behaviour
MaxGitCalls == 2

\* ESC ] 133 ; G ; <payload> BEL
GitPayload(payload) == OSC_GIT_INFO_PREFIX \o payload \o BEL

\* "branch=a" and "status=clean"
PartBranchA == KEY_BRANCH \o <<61>> \o BranchA
PartClean == KEY_STATUS \o <<61>> \o VAL_CLEAN

\* the chunks a process() call of SpecGit may be given: a branch alone,
\* with a status, with an unknown key, with a status that is not
\* recognised, with a trailing and with an inner empty part, with a part
\* that has no '=', an empty branch, and no branch
GitChunks ==
    { GitPayload(PartBranchA),
      GitPayload(PartBranchA \o <<59>> \o PartClean),
      GitPayload(PartBranchA \o <<59, 120, 61, 49>>),
      GitPayload(PartBranchA \o <<59>> \o KEY_STATUS \o <<61, 120>>),
      GitPayload(PartBranchA \o <<59>>),
      GitPayload(PartBranchA \o <<59, 59>> \o PartClean),
      GitPayload(PartBranchA \o <<59, 120>>),
      GitPayload(KEY_BRANCH \o <<61, 59>> \o PartClean),
      GitPayload(PartClean),
      TextLs }

GitProcess ==
    /\ calls < MaxGitCalls
    /\ \E data \in GitChunks : DoProcess(data)

NextGit ==
    \/ GitProcess /\ UNCHANGED notParser
    \/ TakeEvents /\ UNCHANGED notParser
SpecGit == Init /\ [][NextGit]_vars

----------------------------------------------------------------------------
(* Properties of the marker scan *)

\* the offset of the terminator that ends a marker's text: the first BEL or
\* ST of rest, whichever comes first
FirstTerminator(rest) ==
    IF Matches(rest, BEL) \cup Matches(rest, ST) = {} THEN None
    ELSE Some(SetMin(Matches(rest, BEL) \cup Matches(rest, ST)))

\* the text of the marker whose prefix pat occurs at offset i of s, up to
\* its terminator: None when it is not terminated
MarkerText(s, pat, i) ==
    LET rest == SliceFrom(s, i + Len(pat)) IN
    IF IsSome(FirstTerminator(rest))
    THEN Some(SliceTo(rest, Unwrap(FirstTerminator(rest))))
    ELSE None

\* the exit code of the command-end occurrence at offset i of s: None when
\* the occurrence is malformed
WellFormedEndAt(s, i) ==
    LET text == MarkerText(s, OSC_COMMAND_END_PREFIX, i) IN
    IF IsSome(text) /\ Unwrap(text) # <<>> /\ Unwrap(text)[1] = 59
    THEN parse_i32(Tail(Unwrap(text)))
    ELSE None

\* the number of well-formed `ESC]133;D;<n>` occurrences of s
WellFormedEnds(s, n) ==
    Cardinality({i \in Matches(s, OSC_COMMAND_END_PREFIX) : WellFormedEndAt(s, i) = Some(n)})

\* the number of CommandEnd(n) events of a list of events
CountEnds(events, n) ==
    Cardinality({k \in 1..Len(events) :
                    events[k].type = "CommandEnd" /\ events[k].code = n})

\* the exit codes of the model's streams
ExitCodes == {0, 1}

\* C1: over any sequence of process() calls, the events take_events() has
\* returned and will return next hold exactly one CommandEnd(n) for each
\* well-formed `ESC]133;D;<n>` occurrence of the byte stream, and none for
\* a malformed one
C1_OneEndPerOccurrence ==
    /\ \A n \in ExitCodes :
          CountEnds(taken \o p.events, n) = WellFormedEnds(stream, n)
    /\ \A k \in 1..Len(taken \o p.events) :
          (taken \o p.events)[k].type = "CommandEnd"
              => (taken \o p.events)[k].code \in ExitCodes

\* C8: after every process() call the scan buffer holds at most 8192 bytes
C8_BufferWithinCap == Len(p.buffer) <= BUFFER_CAP

\* a single chunk larger than the cap has been processed and truncated
C8_Witness ==
    /\ calls > 0
    /\ Len(lastData) > BUFFER_CAP
    /\ Len(p.buffer) = BUFFER_KEEP

\* C9: a process() call that brings the scan buffer above 8192 bytes leaves
\* in it exactly the last 4096 bytes of the accumulated stream; a call that
\* brings it to 8192 bytes or fewer leaves the old buffer followed by the
\* chunk
C9_TruncateToRecent ==
    [][calls' = calls + 1 =>
         IF Len(p.buffer) + Len(lastData') > BUFFER_CAP
         THEN p'.buffer = SliceFrom(stream', Len(stream') - BUFFER_KEEP)
         ELSE p'.buffer = p.buffer \o lastData']_vars

\* a truncation has kept a command-end marker that came after plain output
C9_Witness ==
    /\ Len(stream) > BUFFER_CAP
    /\ Len(p.buffer) = BUFFER_KEEP
    /\ contains(p.buffer, OSC_COMMAND_END_PREFIX)
    /\ p.buffer # stream

\* the branch and status of the git-info marker at offset i of s: None when
\* the marker is not terminated or carries no branch
GitMarkerAt(s, i) ==
    LET text == MarkerText(s, OSC_GIT_INFO_PREFIX, i) IN
    IF IsSome(text) THEN parse_git_info(Unwrap(text)) ELSE None

\* the offsets of the git-info markers of s
GitMarkers(s) == {i \in Matches(s, OSC_GIT_INFO_PREFIX) : IsSome(GitMarkerAt(s, i))}

\* the GitInfo events of a list of events, as <<branch, status>>
GitInfos(events) ==
    {<<events[k].branch, events[k].status>> :
        k \in {j \in 1..Len(events) : events[j].type = "GitInfo"}}

\* C10: when the scan buffer holds two git-info markers with different
\* branches, the scan emits the branch and status of the rightmost one and
\* no GitInfo with the earlier branch
C10_RightmostGitInfo ==
    (/\ calls > 0
     /\ \E i, j \in GitMarkers(p.buffer) :
           GitMarkerAt(p.buffer, i)[1][1] # GitMarkerAt(p.buffer, j)[1][1])
        => GitInfos(lastScan) = {Unwrap(GitMarkerAt(p.buffer, SetMax(GitMarkers(p.buffer))))}

----------------------------------------------------------------------------
(* Properties of the block lifecycle controller *)

Last(seq) == seq[Len(seq)]

\* the step applies one more event to the controller
EventStep == Len(applied') = Len(applied) + 1

\* C3: the second of two consecutive CommandStart events appends exactly
\* one block to history, the first command's block with ended_at, duration
\* and the output snapshot set and no exit code, and leaves one new Running
\* block
C3_SecondStartFinalizes ==
    [][(/\ EventStep
        /\ applied # <<>>
        /\ Last(applied).type = "CommandStart"
        /\ Last(applied').type = "CommandStart")
       => /\ IsSome(ThePane.current_block)
          /\ Len(ThePane'.history) = Len(ThePane.history) + 1
          /\ SubSeq(ThePane'.history, 1, Len(ThePane.history)) = ThePane.history
          /\ IsSome(Last(ThePane'.history).ended_at)
          /\ IsSome(Last(ThePane'.history).duration_ms)
          /\ Last(ThePane'.history).output = screen_text(ThePane.parser)
          /\ Last(ThePane'.history).exit_code = None
          /\ Last(ThePane'.history).started_at = Unwrap(ThePane.current_block).started_at
          /\ \E t \in 0..MaxClock :
                ThePane'.current_block = Some(new_block(t, ThePane.working_directory))]_vars

\* two CommandStart events have been applied to the Idle pane
C3_Witness ==
    /\ Len(applied) = 2
    /\ applied[1].type = "CommandStart"
    /\ applied[2].type = "CommandStart"
    /\ Len(ThePane.history) = 1
    /\ IsSome(ThePane.current_block)

\* C4: Directory(d) applied to an Idle pane sets the working directory to d
\* and changes neither history nor the current block, and the block the
\* next CommandStart creates has cwd = d
C4_DirectoryWhileIdle ==
    [][/\ (/\ EventStep
            /\ Last(applied').type = "Directory"
            /\ ThePane.current_block = None)
           => /\ ThePane'.working_directory = Last(applied').dir
              /\ ThePane'.history = ThePane.history
              /\ ThePane'.current_block = None
       /\ (/\ EventStep
            /\ applied # <<>>
            /\ Last(applied).type = "Directory"
            /\ ThePane.current_block = None
            /\ Last(applied').type = "CommandStart")
           => /\ IsSome(ThePane'.current_block)
              /\ Unwrap(ThePane'.current_block).cwd = Some(Last(applied).dir)]_vars

\* Directory and then CommandStart have been applied to the Idle pane
C4_Witness ==
    /\ Len(applied) = 2
    /\ applied[1] = EvDirectory(TmpDir)
    /\ applied[2].type = "CommandStart"
    /\ ThePane.history = <<>>
    /\ ThePane.working_directory = TmpDir
    /\ IsSome(ThePane.current_block)
    /\ Unwrap(ThePane.current_block).cwd = Some(TmpDir)

\* C7: every block of history has started_at and ended_at set, started_at
\* before ended_at, and a duration equal to ended_at - started_at
C7_HistoryTimestamps ==
    \A k \in 1..Len(ThePane.history) :
        /\ IsSome(ThePane.history[k].started_at)
        /\ IsSome(ThePane.history[k].ended_at)
        /\ Unwrap(ThePane.history[k].started_at) < Unwrap(ThePane.history[k].ended_at)
        /\ ThePane.history[k].duration_ms =
              Some(num_milliseconds(Unwrap(ThePane.history[k].ended_at),
                                    Unwrap(ThePane.history[k].started_at)))

----------------------------------------------------------------------------
(* Properties of the application *)

\* the panes of the tabs, as <<tab, pane>> positions counted from 1
Positions(tabs) ==
    {<<t, i>> \in (1..Len(tabs)) \X (1..MaxPaneIds + 1) : i <= Len(tabs[t].panes)}

PaneAt(tabs, at) == tabs[at[1]].panes[at[2]]

\* the pane's current block is present and has no exit code
IsRunning(pane) ==
    /\ pane.current_block # None
    /\ Unwrap(pane.current_block).exit_code = None

\* the chunks lo..hi of a sequence of chunks, one after the other
RECURSIVE ConcatRange(_, _, _)
ConcatRange(chunks, lo, hi) ==
    IF lo > hi THEN <<>>
    ELSE IF lo = hi THEN chunks[lo]
    ELSE ConcatRange(chunks, lo, (lo + hi) \div 2)
         \o ConcatRange(chunks, (lo + hi) \div 2 + 1, hi)

Concat(chunks) == ConcatRange(chunks, 1, Len(chunks))

\* one command: its start marker, its output, its end marker with code 0
OneCommand == MarkerC(BEL) \o TextLs \o MarkerD(<<48>>, BEL)

\* C2: a tick that drains the stream of one command, in one chunk or
\* several, into a fresh parser of an Idle pane with empty history leaves
\* history with exactly one block, with exit code Some(0) and a duration
\* that is not negative, and leaves the pane Idle
C2_OneCommandOneBlock ==
    [][\A at \in Positions(layout) :
         (/\ PaneAt(layout, at).parser = TerminalParser_new(ScreenRows, ScreenCols)
          /\ PaneAt(layout, at).history = <<>>
          /\ PaneAt(layout, at).current_block = None
          /\ Concat(PaneAt(layout, at).data_receiver) = OneCommand
          /\ at \in Positions(layout')
          /\ PaneAt(layout', at).id = PaneAt(layout, at).id
          /\ PaneAt(layout', at).data_receiver = <<>>)
         => /\ Len(PaneAt(layout', at).history) = 1
            /\ PaneAt(layout', at).history[1].exit_code = Some(0)
            /\ IsSome(PaneAt(layout', at).history[1].duration_ms)
            /\ Unwrap(PaneAt(layout', at).history[1].duration_ms) >= 0
            /\ PaneAt(layout', at).current_block = None]_vars

\* the ids of the panes, and of the Running panes
PaneIds(tabs) == {PaneAt(tabs, at).id : at \in Positions(tabs)}
RunningIds(tabs) ==
    {PaneAt(tabs, at).id : at \in {a \in Positions(tabs) : IsRunning(PaneAt(tabs, a))}}

\* C5: no step removes a Running pane; close_active_pane on a Running
\* active pane, and close_tab_at on a tab with a Running pane, change
\* nothing
C5_RunningPaneNeverRemoved ==
    [][/\ RunningIds(layout) \subseteq PaneIds(layout')
       /\ (/\ IsSome(active_pane_at(layout, active_tab))
            /\ IsRunning(PaneAt(layout, Unwrap(active_pane_at(layout, active_tab)))))
           => close_active_pane(layout, active_tab) = layout
       /\ \A index \in 0..(Len(layout) - 1) :
            (\E i \in 1..Len(layout[index + 1].panes) :
                IsRunning(layout[index + 1].panes[i]))
            => close_tab_at(layout, active_tab, index) = <<layout, active_tab, FALSE>>]_vars

\* the active pane is Running and is not the only pane of its tab, and
\* there is a second pane to close instead
C5_Witness ==
    /\ IsSome(active_pane_at(layout, active_tab))
    /\ IsRunning(PaneAt(layout, Unwrap(active_pane_at(layout, active_tab))))
    /\ Len(layout[active_tab + 1].panes) >= 2

\* the fields of a history entry that no message may change
Frozen(b) ==
    <<b.exit_code, b.started_at, b.ended_at, b.duration_ms, b.cwd, b.git_branch,
      b.git_status, b.host, b.is_remote, b.output, b.output_range>>

\* C6: in every step a pane's history keeps its entries in place, and an
\* entry keeps its exit code, timestamps, duration, cwd, git fields, host
\* and output; tags never change either
C6_HistoryAppendOnly ==
    [][\A a \in Positions(layout) : \A b \in Positions(layout') :
         PaneAt(layout, a).id = PaneAt(layout', b).id
         => /\ Len(PaneAt(layout', b).history) >= Len(PaneAt(layout, a).history)
            /\ \A k \in 1..Len(PaneAt(layout, a).history) :
                  Frozen(PaneAt(layout', b).history[k]) = Frozen(PaneAt(layout, a).history[k])]_vars

\* a finished block of history has had its command text edited
C6_Witness ==
    \E at \in Positions(layout) :
        /\ PaneAt(layout, at).history # <<>>
        /\ PaneAt(layout, at).history[1].exit_code = Some(0)
        /\ PaneAt(layout, at).history[1].command = TextCmd

----------------------------------------------------------------------------
(* Properties of the diff cache *)

\* the pane ids of the leaves of a layout tree
RECURSIVE leaf_ids(_)
leaf_ids(node) ==
    IF node.kind = "Leaf" THEN {node.pane_id}
    ELSE leaf_ids(node.left) \cup leaf_ids(node.right)

\* the screen of the pane a key names
ScreenOf(key) == layout[key[1] + 1].panes[key[2] + 1].parser.parser

\* the leaves of the active tab that are given a canvas
CanvasPanes ==
    IF active_tab < Len(layout)
    THEN { id \in leaf_ids(layout[active_tab + 1].root) :
             /\ id < Len(layout[active_tab + 1].panes)
             /\ is_alt_screen_active(layout[active_tab + 1].panes[id + 1].parser) }
    ELSE {}

\* the keys of the rows a frame draws: every row of every canvas
CanvasKeys ==
    UNION { { <<active_tab, id, row>> :
                row \in 0..(vt100_size(ScreenOf(<<active_tab, id, 0>>))[2] - 1) } :
            id \in CanvasPanes }

\* the rows a frame left for a key
DrawnFor(out, key) == { n \in 1..Len(out) : out[n].key = key }

\* C11: in a render pass a row whose fresh hash equals the hash stored under
\* its key is not recomputed and leaves the stored hash and the cached runs
\* of the key as they were; a row whose hash is missing or differs is
\* recomputed, and the stored hash and the cached runs are overwritten
C11_HitKeepsMissOverwrites ==
    [][Render =>
        \A key \in CanvasKeys :
            /\ Cardinality(DrawnFor(drawn', key)) = 1
            /\ \A n \in DrawnFor(drawn', key) :
                 IF map_get(row_hashes, key) = Some(compute_row_hash(ScreenOf(key), key[3]))
                 THEN /\ ~drawn'[n].recomputed
                      /\ map_get(row_hashes', key) = map_get(row_hashes, key)
                      /\ map_get(render_cache', key) = map_get(render_cache, key)
                 ELSE /\ drawn'[n].recomputed
                      /\ map_get(row_hashes', key)
                           = Some(compute_row_hash(ScreenOf(key), key[3]))
                      /\ map_get(render_cache', key)
                           = Some(compute_runs(ScreenOf(key), key[3], CELL_WIDTH))]_vars

\* a frame in which one row was reused and another, stored before with
\* another hash, was recomputed
C11_Witness ==
    /\ \E n \in 1..Len(drawn) :
         /\ drawn[n].stored = Some(drawn[n].hash)
         /\ ~drawn[n].recomputed
    /\ \E n \in 1..Len(drawn) :
         /\ IsSome(drawn[n].stored)
         /\ drawn[n].stored # Some(drawn[n].hash)
         /\ drawn[n].recomputed
         /\ map_get(row_hashes, drawn[n].key) = Some(drawn[n].hash)

\* C12: the runs a render pass draws for every row are the runs compute_runs
\* gives for the row of the current screen, whatever the cache held
C12_DrawnEqualsRecomputed ==
    [][Render =>
        \A key \in CanvasKeys :
            \E n \in DrawnFor(drawn', key) :
                drawn'[n].runs
                    = Some(compute_runs(ScreenOf(key), key[3], CELL_WIDTH))]_vars

\* a frame that reused the cached runs of a row that shows text
C12_Witness ==
    \E n \in 1..Len(drawn) :
        /\ ~drawn[n].recomputed
        /\ IsSome(drawn[n].runs)
        /\ \E r \in 1..Len(Unwrap(drawn[n].runs)) :
              Unwrap(drawn[n].runs)[r].text # <<>>

\* the keys of a map
map_keys(m) == DOMAIN m

\* C24: a Resize message leaves the render cache and the row-hash map
\* empty, and a render pass that follows it at once recomputes the runs of
\* every row it draws
C24_ResizeClearsCaches ==
    [][Resize =>
        /\ render_cache' = EmptyMap
        /\ row_hashes' = EmptyMap
        /\ \A n \in 1..Len(view(layout', active_tab', render_cache', row_hashes').out) :
              view(layout', active_tab', render_cache', row_hashes').out[n].recomputed]_vars

\* the only tab ever made shows a canvas whose rows were drawn and cached,
\* was resized to another size since, and the caches are empty
C24_Witness ==
    /\ Len(layout) = 1
    /\ next_id = 1
    /\ drawn # <<>>
    /\ CanvasKeys # {}
    /\ vt100_size(layout[1].panes[1].parser.parser)
          # vt100_size(vt100_new(ScreenRows, ScreenCols))
    /\ render_cache = EmptyMap
    /\ row_hashes = EmptyMap

\* the keys of both caches
CachedKeys == map_keys(render_cache) \cup map_keys(row_hashes)

\* C25: when a pane has been closed the caches hold no entry keyed by the
\* tab and the id of the closed pane, and when a tab has been closed they
\* hold no entry keyed by the index of a tab that is gone or has changed
C25_ClosedIdsPurged ==
    [][/\ (/\ Len(layout') = Len(layout)
           /\ active_tab < Len(layout)
           /\ Len(layout'[active_tab + 1].panes) < Len(layout[active_tab + 1].panes))
          => \A key \in CachedKeys' :
                ~(key[1] = active_tab /\ key[2] = layout[active_tab + 1].active_pane)
       /\ Len(layout') < Len(layout)
          => \A key \in CachedKeys' :
                /\ key[1] < Len(layout')
                /\ layout'[key[1] + 1] = layout[key[1] + 1]]_vars

\* C26: a draw holds no cache mutex between two rows: the guard taken for
\* the lookup or insert of one row is released before the next row, and is
\* not held from the first row of a frame to the last
C26_LockPerRow ==
    (/\ IsSome(canvas)
     /\ Unwrap(canvas).row > 0
     /\ Unwrap(canvas).row < vt100_size(Unwrap(canvas).self.screen)[2])
        => cache_lock = {}

----------------------------------------------------------------------------
(* Properties of the reader pump and the tick *)

\* the pane of the pump, while it exists
PumpedPane == layout[Unwrap(PumpPane)[1]].panes[Unwrap(PumpPane)[2]]

\* s is a prefix of t
IsPrefix(s, t) == Len(s) <= Len(t) /\ SubSeq(t, 1, Len(s)) = s

\* C13: the bytes the tick has given to the pane's parser.process() are a
\* prefix of the bytes the pump has read, in order; the bytes read and not
\* yet processed are those of the channel, in order, followed by the chunk
\* the pump holds: none is dropped, duplicated or reordered, and a pump that
\* finds the channel full keeps its chunk and reads no further
C13_DeliveredInOrder ==
    IsSome(PumpPane) =>
        /\ IsPrefix(PumpedPane.parser.buffer, Concat(reads))
        /\ Concat(reads) = PumpedPane.parser.buffer
                             \o Concat(PumpedPane.data_receiver) \o pump.held
        /\ Len(PumpedPane.data_receiver) <= CHANNEL_CAPACITY

\* the pump waits with its chunk at a full channel after the tick has
\* processed chunks
C13_Witness ==
    /\ IsSome(PumpPane)
    /\ Len(PumpedPane.data_receiver) = CHANNEL_CAPACITY
    /\ pump.pc = "send"
    /\ pump.held # <<>>
    /\ PumpedPane.parser.buffer # <<>>

\* C14: once the receiver of the pane's channel is dropped the pump
\* eventually leaves its loop
C14_PumpExitsAfterDrop == ~IsSome(PumpPane) ~> pump.pc = "exited"

\* C15: the pump leaves its loop exactly on a read of 0 bytes, on a read
\* error other than WouldBlock, and on a send that finds the receiver
\* dropped; a read that returns WouldBlock sends nothing and takes the pump
\* to its backoff, from which it goes back to its read
C15_PumpStops ==
    [][pump' # pump =>
        /\ (pump.pc # "exited" /\ pump'.pc = "exited") <=>
              \/ pump.pc = "read" /\ pump'.last \in {"eof", "error"}
              \/ pump.pc = "send" /\ ~IsSome(PumpPane)
        /\ (pump.pc = "read" /\ pump'.last = "would_block") =>
              /\ pump'.pc = "sleep"
              /\ layout' = layout
              /\ reads' = reads
        /\ pump.pc = "sleep" => pump'.pc = "read"
        /\ pump.pc = "exited" => FALSE]_vars

\* the pump left its loop at a send to a receiver that was dropped, after a
\* read that returned data
C15_Witness ==
    /\ pump.pc = "exited"
    /\ pump.last = "data"
    /\ ~IsSome(PumpPane)

----------------------------------------------------------------------------
(* Properties of the writes to the pty *)

\* the id of the active pane, None when there is none
ActiveId ==
    IF IsSome(active_pane_at(layout, active_tab)) THEN Some(ActivePane.id) ELSE None

\* C16: bytes are written to a pty only by a write message, only to the
\* active pane's pty and only when its mutex is not held elsewhere; a write
\* message that finds the mutex held writes nothing and changes nothing,
\* and what it did not write is not written later by any other step
C16_WriteOnlyWithLock ==
    [][/\ pty_in' # pty_in =>
            /\ msgs' = msgs + 1
            /\ IsSome(ActiveId)
            /\ Unwrap(ActiveId) \notin pty_locked
            /\ Len(pty_in') = Len(pty_in) + 1
            /\ SubSeq(pty_in', 1, Len(pty_in)) = pty_in
            /\ pty_in'[Len(pty_in')].pane = Unwrap(ActiveId)
       /\ (msgs' = msgs + 1 /\ IsSome(ActiveId) /\ Unwrap(ActiveId) \in pty_locked) =>
            /\ pty_in' = pty_in
            /\ layout' = layout
            /\ pty_locked' = pty_locked
       /\ msgs' = msgs => pty_in' = pty_in]_vars

\* a write message found the mutex held and wrote nothing; the mutex is
\* free again, and a later message has written
C16_Witness ==
    /\ contended > 0
    /\ pty_locked = {}
    /\ Len(pty_in) = 1
    /\ msgs = 2

----------------------------------------------------------------------------
(* Properties of the event queue and of the extension sequences *)

\* C18: take_events() returns the whole queue in its order and leaves it
\* empty, so that the events it returns are those queued since the take
\* before it and a take repeated at once returns nothing; it changes
\* nothing else of the parser
C18_TakeDrainsQueue ==
    [][(calls' = calls /\ <<p, taken, lastTake>>' # <<p, taken, lastTake>>) =>
          /\ lastTake' = p.events
          /\ taken' = taken \o p.events
          /\ p'.events = <<>>
          /\ p' = [p EXCEPT !.events = <<>>]]_vars

\* a take returned two events in a row after an earlier take, and the
\* queue is empty
C18_Witness ==
    /\ Len(lastTake) >= 2
    /\ Len(taken) > Len(lastTake)
    /\ p.events = <<>>

\* whether the most recent alternate-screen sequence of s is the enter one
RecentAltIsEnter(s) ==
    IF Matches(s, ALT_SCREEN_ENTER) \cup Matches(s, ALT_SCREEN_EXIT) = {} THEN FALSE
    ELSE SetMax(Matches(s, ALT_SCREEN_ENTER) \cup Matches(s, ALT_SCREEN_EXIT))
            \in Matches(s, ALT_SCREEN_ENTER)

\* C19: after every process() call is_alt_screen_active() tells whether the
\* most recent alternate-screen sequence of the bytes processed so far is
\* CSI ?1049h, for any chunking
C19_AltFollowsRecent == is_alt_screen_active(p) = RecentAltIsEnter(stream)

\* the events queued or taken so far
EventsSoFar == taken \o p.events

\* C20: once the bytes processed hold a directory-change marker for /tmp
\* the events queued so far hold a Directory event for /tmp
C20_DirectoryQueued ==
    (contains(stream, DirMarkerOsc7(TmpPath))
        \/ contains(stream, DirMarkerOsc1337(TmpPath))) =>
            \E n \in 1..Len(EventsSoFar) :
                /\ EventsSoFar[n].type = "Directory"
                /\ EventsSoFar[n].dir \in {TmpPath, TmpDir}

----------------------------------------------------------------------------
(* Properties of the marker scan, one marker at a time *)

\* the number of events of one type in a list of events
CountType(events, type) ==
    Cardinality({k \in 1..Len(events) : events[k].type = type})

\* C21: over the whole sequence of process() calls the events queued hold
\* exactly one CommandStart for each occurrence of `ESC]133;C` in the byte
\* stream: a marker still in the scan buffer is not reported again by a
\* later call
C21_OneStartPerOccurrence ==
    CountType(taken \o p.events, "CommandStart")
        = Cardinality(Matches(stream, OSC_COMMAND_START))

\* C22: when the first command-end marker of the scan buffer is a
\* well-formed `ESC]133;D;<N>` up to the first terminator after it, BEL or
\* ST whichever comes first, the scan queues CommandEnd(N), whatever
\* terminator occurs later in the buffer
C22_FirstTerminatorEnds ==
    (/\ calls > 0
     /\ Matches(p.buffer, OSC_COMMAND_END_PREFIX) # {}
     /\ IsSome(WellFormedEndAt(p.buffer, SetMin(Matches(p.buffer, OSC_COMMAND_END_PREFIX)))))
        => CountEnds(lastScan,
              Unwrap(WellFormedEndAt(p.buffer,
                        SetMin(Matches(p.buffer, OSC_COMMAND_END_PREFIX))))) = 1

\* whether a payload carries a `branch` key with a non-empty value
HasBranch(payload) ==
    \E k \in 1..Len(split(payload, 59)) :
        LET part == split(payload, 59)[k] IN
        /\ Len(part) > Len(KEY_BRANCH) + 1
        /\ SubSeq(part, 1, Len(KEY_BRANCH) + 1) = KEY_BRANCH \o <<61>>

\* the payload of the rightmost git-info marker of s: None when s holds no
\* marker or the marker is not terminated
RightmostGitPayload(s) ==
    IF Matches(s, OSC_GIT_INFO_PREFIX) = {} THEN None
    ELSE MarkerText(s, OSC_GIT_INFO_PREFIX, SetMax(Matches(s, OSC_GIT_INFO_PREFIX)))

\* C23: a scan whose buffer holds a terminated git-info payload queues a
\* GitInfo event exactly when the payload carries a `branch` key with a
\* non-empty value, whatever its other parts are
C23_GitInfoIffBranch ==
    (calls > 0 /\ IsSome(RightmostGitPayload(p.buffer)))
        => (CountType(lastScan, "GitInfo") = 1
                <=> HasBranch(Unwrap(RightmostGitPayload(p.buffer))))

----------------------------------------------------------------------------
(* Properties of the screen snapshot *)

\* the contents of cells col..cols of row `row` of a grid, left to right
RECURSIVE RowText(_, _, _)
RowText(vt, row, col) ==
    IF col > vt.cols THEN <<>>
    ELSE vt.grid[row][col] \o RowText(vt, row, col + 1)

\* the lines row..rows of a grid, top to bottom, each ended by a newline
RECURSIVE ViewportText(_, _)
ViewportText(vt, row) ==
    IF row > vt.rows THEN <<>>
    ELSE RowText(vt, row, 1) \o <<10>> \o ViewportText(vt, row + 1)

\* C27: screen_text() is the `rows` lines of the visible grid from top to
\* bottom, each the contents of the `cols` cells of its row from left to
\* right followed by a newline, also for a grid that is not square
C27_ScreenTextRowMajor ==
    calls > 0 => screen_text(p) = ViewportText(p.parser, 1)

----------------------------------------------------------------------------
(* Properties of pane creation *)

\* C28: a split or a new tab whose Pane::new returned an error adds no
\* pane and no tab: the tabs, their layout trees and panes, their
\* active_pane and active_tab are as they were before the message
C28_SpawnErrorChangesNothing ==
    [][spawn_errors' # spawn_errors =>
          /\ layout' = layout
          /\ active_tab' = active_tab]_vars

\* Pane::new has failed twice, and there are two tabs, one of them split
C28_Witness ==
    /\ spawn_errors = MaxSpawnErrors
    /\ Len(layout) = 2
    /\ \E t \in 1..Len(layout) : Len(layout[t].panes) = 2

----------------------------------------------------------------------------
(* Properties of the scroll offset *)

\* C29: a tick leaves a pane with the scroll offset 0 when bytes arrived
\* for that pane during the tick and the pane is in follow mode, and with
\* the scroll offset it had in every other case
C29_FollowOwnData ==
    [][Tick =>
        \A t \in 1..Len(layout) : \A i \in 1..Len(layout[t].panes) :
            layout'[t].panes[i].scroll_offset
                = IF layout[t].panes[i].data_receiver # <<>>
                     /\ layout[t].panes[i].follow_mode
                  THEN 0
                  ELSE layout[t].panes[i].scroll_offset]_vars

----------------------------------------------------------------------------
(* Properties of the events the controller drops *)

\* C30: a Command, GitInfo or CommandEnd event applied to a pane with no
\* current block leaves the pane as it was, its history, current block and
\* working directory included, and a PromptShown event leaves the pane as
\* it was in every state
C30_DroppedEvents ==
    [][EventStep =>
          /\ Last(applied').type = "PromptShown" => ThePane' = ThePane
          /\ (/\ ThePane.current_block = None
              /\ Last(applied').type \in {"Command", "GitInfo", "CommandEnd"})
                => /\ ThePane' = ThePane
                   /\ ThePane'.history = ThePane.history
                   /\ ThePane'.current_block = None
                   /\ ThePane'.working_directory = ThePane.working_directory]_vars

\* CommandEnd has been applied to the Idle pane and dropped, then
\* CommandStart, then PromptShown to the Running pane
C30_Witness ==
    /\ Len(applied) = 3
    /\ applied[1].type = "CommandEnd"
    /\ applied[2].type = "CommandStart"
    /\ applied[3].type = "PromptShown"
    /\ ThePane.history = <<>>
    /\ IsSome(ThePane.current_block)

----------------------------------------------------------------------------
(* The block export: export.rs format_blocks and its formatters.  Strings
   are sequences of bytes, as everywhere in this module. *)

MaxExportBlocks == 2

Markdown == "Markdown"
Json == "Json"
Html == "Html"
Text == "Text"
ExportFormat == {Markdown, Json, Html, Text}

\* the part of a Block that an export prints
ExportBlock(command, output, exit_code, duration_ms) ==
    [command |-> command, output |-> output, exit_code |-> exit_code,
     duration_ms |-> duration_ms]

\* i32 and u64 Display: decimal digits, with a sign for a negative number
RECURSIVE fmt_digits(_)
fmt_digits(n) ==
    IF n < 10 THEN <<48 + n>> ELSE fmt_digits(n \div 10) \o <<48 + (n % 10)>>
fmt_int(n) == IF n < 0 THEN <<45>> \o fmt_digits(0 - n) ELSE fmt_digits(n)

\* Option::unwrap_or
unwrap_or(o, default) == IF IsSome(o) THEN o[1] ELSE default

\* str::replace(char, &str): every occurrence of the character, left to right
replace(s, from, to) ==
    Concat([i \in 1..Len(s) |-> IF s[i] = from THEN to ELSE <<s[i]>>])

AMP == 38
LT == 60
GT == 62
QUOT == 34
APOS == 39
ENTITY_AMP ==
    <<38, 97, 109, 112, 59>>
ENTITY_LT ==
    <<38, 108, 116, 59>>
ENTITY_GT ==
    <<38, 103, 116, 59>>
ENTITY_QUOT ==
    <<38, 113, 117, 111, 116, 59>>
ENTITY_APOS ==
    <<38, 35, 51, 57, 59>>

\* html_escape with the ampersand replaced last instead of first
html_escape_amp_last(input) ==
    replace(replace(replace(replace(replace(input, LT, ENTITY_LT), GT, ENTITY_GT),
                            QUOT, ENTITY_QUOT), APOS, ENTITY_APOS), AMP, ENTITY_AMP)

\* html_escape: five replace calls, the ampersand first
html_escape(input) ==
    replace(replace(replace(replace(replace(input, AMP, ENTITY_AMP), LT, ENTITY_LT),
                            GT, ENTITY_GT), QUOT, ENTITY_QUOT), APOS, ENTITY_APOS)

\* the literal text of the three format strings, piece by piece
\* ## 
MD_HEADING ==
    <<35, 35, 32>>
\* \n\n```bash\n
MD_COMMAND_OPEN ==
    <<10, 10, 96, 96, 96, 98, 97, 115, 104, 10>>
\* \n```\n\n### Output\n\n```\n
MD_OUTPUT_OPEN ==
    <<10, 96, 96, 96, 10, 10, 35, 35, 35, 32, 79, 117, 116, 112, 117, 116,
      10, 10, 96, 96, 96, 10>>
\* \n```\n\nExit Code: 
MD_OUTPUT_CLOSE ==
    <<10, 96, 96, 96, 10, 10, 69, 120, 105, 116, 32, 67, 111, 100, 101, 58,
      32>>
\* \nDuration: 
LINE_DURATION ==
    <<10, 68, 117, 114, 97, 116, 105, 111, 110, 58, 32>>
\* ms\n\n
MD_BLOCK_END ==
    <<109, 115, 10, 10>>
\* Command: 
TEXT_COMMAND ==
    <<67, 111, 109, 109, 97, 110, 100, 58, 32>>
\* Output:\n
TEXT_OUTPUT ==
    <<79, 117, 116, 112, 117, 116, 58, 10>>
\* Exit Code: 
TEXT_EXIT_CODE ==
    <<69, 120, 105, 116, 32, 67, 111, 100, 101, 58, 32>>
\* Duration: 
TEXT_DURATION ==
    <<68, 117, 114, 97, 116, 105, 111, 110, 58, 32>>
\* ms\n
TEXT_MS ==
    <<109, 115, 10>>
\* \n---\n\n
TEXT_SEPARATOR ==
    <<10, 45, 45, 45, 10, 10>>
\* <section class="block">
HTML_SECTION_OPEN ==
    <<60, 115, 101, 99, 116, 105, 111, 110, 32, 99, 108, 97, 115, 115, 61,
      34, 98, 108, 111, 99, 107, 34, 62>>
\* \n<h2>
HTML_H2_OPEN ==
    <<10, 60, 104, 50, 62>>
\* </h2>\n<h3>Command</h3>\n<pre><code>
HTML_COMMAND_OPEN ==
    <<60, 47, 104, 50, 62, 10, 60, 104, 51, 62, 67, 111, 109, 109, 97, 110,
      100, 60, 47, 104, 51, 62, 10, 60, 112, 114, 101, 62, 60, 99, 111, 100,
      101, 62>>
\* </code></pre>\n<h3>Output</h3>\n<pre><code>
HTML_OUTPUT_OPEN ==
    <<60, 47, 99, 111, 100, 101, 62, 60, 47, 112, 114, 101, 62, 10, 60, 104,
      51, 62, 79, 117, 116, 112, 117, 116, 60, 47, 104, 51, 62, 10, 60, 112,
      114, 101, 62, 60, 99, 111, 100, 101, 62>>
\* </code></pre>\n<p>Exit Code: 
HTML_EXIT_CODE ==
    <<60, 47, 99, 111, 100, 101, 62, 60, 47, 112, 114, 101, 62, 10, 60, 112,
      62, 69, 120, 105, 116, 32, 67, 111, 100, 101, 58, 32>>
\*  | Duration: 
HTML_DURATION ==
    <<32, 124, 32, 68, 117, 114, 97, 116, 105, 111, 110, 58, 32>>
\* ms</p>\n</section>\n
HTML_SECTION_CLOSE ==
    <<109, 115, 60, 47, 112, 62, 10, 60, 47, 115, 101, 99, 116, 105, 111,
      110, 62, 10>>
\* <!doctype html><html><head><meta charset="utf-8"><style>body{font-family:monospace;background:#111;color:#eee}pre{background:#1b1b1b;padding:12px;border-radius:6px}</style></head><body>
HTML_PAGE_OPEN ==
    <<60, 33, 100, 111, 99, 116, 121, 112, 101, 32, 104, 116, 109, 108, 62,
      60, 104, 116, 109, 108, 62, 60, 104, 101, 97, 100, 62, 60, 109, 101,
      116, 97, 32, 99, 104, 97, 114, 115, 101, 116, 61, 34, 117, 116, 102,
      45, 56, 34, 62, 60, 115, 116, 121, 108, 101, 62, 98, 111, 100, 121,
      123, 102, 111, 110, 116, 45, 102, 97, 109, 105, 108, 121, 58, 109, 111,
      110, 111, 115, 112, 97, 99, 101, 59, 98, 97, 99, 107, 103, 114, 111,
      117, 110, 100, 58, 35, 49, 49, 49, 59, 99, 111, 108, 111, 114, 58, 35,
      101, 101, 101, 125, 112, 114, 101, 123, 98, 97, 99, 107, 103, 114, 111,
      117, 110, 100, 58, 35, 49, 98, 49, 98, 49, 98, 59, 112, 97, 100, 100,
      105, 110, 103, 58, 49, 50, 112, 120, 59, 98, 111, 114, 100, 101, 114,
      45, 114, 97, 100, 105, 117, 115, 58, 54, 112, 120, 125, 60, 47, 115,
      116, 121, 108, 101, 62, 60, 47, 104, 101, 97, 100, 62, 60, 98, 111,
      100, 121, 62>>
\* </body></html>
HTML_PAGE_CLOSE ==
    <<60, 47, 98, 111, 100, 121, 62, 60, 47, 104, 116, 109, 108, 62>>

NL == <<10>>

\* export_blocks_markdown: one format! per block, appended in input order
markdown_block(block) ==
    MD_HEADING \o block.command \o MD_COMMAND_OPEN \o block.command
        \o MD_OUTPUT_OPEN \o block.output \o MD_OUTPUT_CLOSE
        \o fmt_int(unwrap_or(block.exit_code, -1)) \o LINE_DURATION
        \o fmt_int(unwrap_or(block.duration_ms, 0)) \o MD_BLOCK_END
export_blocks_markdown(blocks) ==
    Concat([i \in 1..Len(blocks) |-> markdown_block(blocks[i])])

\* export_blocks_text: four lines and the separator per block
text_block(block) ==
    TEXT_COMMAND \o block.command \o NL
        \o TEXT_OUTPUT \o block.output \o NL
        \o TEXT_EXIT_CODE \o fmt_int(unwrap_or(block.exit_code, -1)) \o NL
        \o TEXT_DURATION \o fmt_int(unwrap_or(block.duration_ms, 0)) \o TEXT_MS
        \o TEXT_SEPARATOR
export_blocks_text(blocks) ==
    Concat([i \in 1..Len(blocks) |-> text_block(blocks[i])])

\* export_blocks_html: one section per block inside the page
html_block(block) ==
    HTML_SECTION_OPEN \o HTML_H2_OPEN \o html_escape(block.command)
        \o HTML_COMMAND_OPEN \o html_escape(block.command)
        \o HTML_OUTPUT_OPEN \o html_escape(block.output)
        \o HTML_EXIT_CODE \o fmt_int(unwrap_or(block.exit_code, -1))
        \o HTML_DURATION \o fmt_int(unwrap_or(block.duration_ms, 0))
        \o HTML_SECTION_CLOSE
export_blocks_html(blocks) ==
    HTML_PAGE_OPEN \o Concat([i \in 1..Len(blocks) |-> html_block(blocks[i])])
        \o HTML_PAGE_CLOSE

\* serde_json string syntax for the bytes that occur here: the quote, the
\* backslash and the newline are escaped
BACKSLASH == 92
json_string(s) ==
    <<QUOT>> \o replace(replace(replace(s, BACKSLASH, <<BACKSLASH, BACKSLASH>>),
                                QUOT, <<BACKSLASH, QUOT>>), 10, <<BACKSLASH, 110>>)
        \o <<QUOT>>
\* null
JSON_NULL ==
    <<110, 117, 108, 108>>
\*   {\n    "command": 
JSON_OBJECT_OPEN ==
    <<32, 32, 123, 10, 32, 32, 32, 32, 34, 99, 111, 109, 109, 97, 110, 100,
      34, 58, 32>>
\* ,\n    "duration_ms": 
JSON_DURATION ==
    <<44, 10, 32, 32, 32, 32, 34, 100, 117, 114, 97, 116, 105, 111, 110, 95,
      109, 115, 34, 58, 32>>
\* ,\n    "exit_code": 
JSON_EXIT_CODE ==
    <<44, 10, 32, 32, 32, 32, 34, 101, 120, 105, 116, 95, 99, 111, 100, 101,
      34, 58, 32>>
\* ,\n    "output": 
JSON_OUTPUT ==
    <<44, 10, 32, 32, 32, 32, 34, 111, 117, 116, 112, 117, 116, 34, 58, 32>>
\* \n  }
JSON_OBJECT_CLOSE ==
    <<10, 32, 32, 125>>
\* []
JSON_EMPTY ==
    <<91, 93>>
\* [\n
JSON_ARRAY_OPEN ==
    <<91, 10>>
\* \n]
JSON_ARRAY_CLOSE ==
    <<10, 93>>
\* ,\n
JSON_COMMA ==
    <<44, 10>>

json_option(o) == IF IsSome(o) THEN fmt_int(o[1]) ELSE JSON_NULL

\* serde_json::to_string_pretty of the blocks, restricted to the four
\* fields of ExportBlock (in the order of the struct): an empty slice is
\* printed as [], any other as one indented object per block
json_block(block) ==
    JSON_OBJECT_OPEN \o json_string(block.command)
        \o JSON_DURATION \o json_option(block.duration_ms)
        \o JSON_EXIT_CODE \o json_option(block.exit_code)
        \o JSON_OUTPUT \o json_string(block.output) \o JSON_OBJECT_CLOSE
to_string_pretty(blocks) ==
    IF Len(blocks) = 0 THEN JSON_EMPTY
    ELSE JSON_ARRAY_OPEN
         \o Concat([i \in 1..Len(blocks) |->
                IF i = 1 THEN json_block(blocks[i])
                ELSE JSON_COMMA \o json_block(blocks[i])])
         \o JSON_ARRAY_CLOSE

\* format_blocks: the content of the ExportResult
format_blocks(blocks, format) ==
    CASE format = Markdown -> export_blocks_markdown(blocks)
      [] format = Json -> to_string_pretty(blocks)
      [] format = Html -> export_blocks_html(blocks)
      [] format = Text -> export_blocks_text(blocks)

\* the blocks an export is given: commands and outputs with and without the
\* characters HTML escapes, an output that holds the text of an entity, and
\* an output with a line of three dashes (a YAML document, a Markdown rule)
TextCmdLs ==
    <<108, 115>>
TextCmdLess ==
    <<97, 60, 98>>
TextCmdCat ==
    <<99, 97, 116, 32, 102>>
TextOutPlain ==
    <<102>>
TextOutSpecials ==
    <<60, 38, 62, 34, 39>>
TextOutEntity ==
    <<38, 108, 116, 59>>
TextOutRule ==
    <<97, 10, 45, 45, 45, 10, 98>>
ExportBlocks ==
    { ExportBlock(TextCmdLs, TextOutPlain, Some(0), Some(12)),
      ExportBlock(TextCmdLess, TextOutSpecials, Some(1), Some(0)),
      ExportBlock(TextCmdLs, TextOutEntity, None, None),
      ExportBlock(TextCmdCat, TextOutRule, Some(0), Some(3)) }

\* one more block joins the list given to the next export
SelectBlock ==
    /\ Len(selection) < MaxExportBlocks
    /\ \E block \in ExportBlocks : selection' = Append(selection, block)
    /\ UNCHANGED exported

\* the list is emptied
ClearSelection ==
    /\ selection # <<>>
    /\ selection' = <<>>
    /\ UNCHANGED exported

\* format_blocks(&selected, format)
FormatBlocks ==
    /\ \E format \in ExportFormat :
          exported' = Some([format |-> format, blocks |-> selection,
                            content |-> format_blocks(selection, format)])
    /\ UNCHANGED selection

notExport == <<parserVars, appVars, renderVars, pumpVars, writeVars, drawVars,
               spawnVars>>

NextExport ==
    \/ SelectBlock /\ UNCHANGED notExport
    \/ ClearSelection /\ UNCHANGED notExport
    \/ FormatBlocks /\ UNCHANGED notExport
SpecExport == Init /\ [][NextExport]_vars

----------------------------------------------------------------------------
(* Properties of the block export *)

\* the lines of a text: where each one starts, and the line that starts there
LineStarts(s) == {1} \cup {i + 1 : i \in {k \in 1..Len(s) : s[k] = 10}}
LineAt(s, from) ==
    LET ends == {k \in from..Len(s) : s[k] = 10}
    IN  SubSeq(s, from, IF ends = {} THEN Len(s) ELSE SetMin(ends) - 1)
IsRule(line) == line = <<45, 45, 45>>
IsHeading(line) == IsPrefix(MD_HEADING, line)
RECURSIVE NthMin(_, _)
NthMin(S, k) == IF k = 1 THEN SetMin(S) ELSE NthMin(S \ {SetMin(S)}, k - 1)

\* C31: format_blocks renders every block exactly once and in order: the
\* Text export of n blocks has exactly n lines that are `---`, the HTML
\* export exactly n `<section class="block">`, the Markdown export one
\* `## <command>` heading per block, in the order of the blocks; the
\* Markdown export of no block is empty and the JSON export of no block is
\* `[]`.
C31_EveryBlockOnce ==
    IsSome(exported) =>
        LET e == exported[1]
            n == Len(e.blocks)
            rules == {i \in LineStarts(e.content) : IsRule(LineAt(e.content, i))}
            headings == {i \in LineStarts(e.content) : IsHeading(LineAt(e.content, i))}
        IN  /\ e.format = Text => Cardinality(rules) = n
            /\ e.format = Html =>
                   Cardinality(Matches(e.content, HTML_SECTION_OPEN)) = n
            /\ e.format = Markdown =>
                   /\ Cardinality(headings) = n
                   /\ \A i \in 1..n :
                         LineAt(e.content, NthMin(headings, i))
                             = MD_HEADING \o e.blocks[i].command
                   /\ n = 0 => e.content = <<>>
            /\ e.format = Json /\ n = 0 => e.content = JSON_EMPTY

\* reading the five entities back, left to right
RECURSIVE html_unescape(_)
html_unescape(s) ==
    IF s = <<>> THEN <<>>
    ELSE IF IsPrefix(ENTITY_AMP, s)
         THEN <<AMP>> \o html_unescape(SubSeq(s, Len(ENTITY_AMP) + 1, Len(s)))
    ELSE IF IsPrefix(ENTITY_LT, s)
         THEN <<LT>> \o html_unescape(SubSeq(s, Len(ENTITY_LT) + 1, Len(s)))
    ELSE IF IsPrefix(ENTITY_GT, s)
         THEN <<GT>> \o html_unescape(SubSeq(s, Len(ENTITY_GT) + 1, Len(s)))
    ELSE IF IsPrefix(ENTITY_QUOT, s)
         THEN <<QUOT>> \o html_unescape(SubSeq(s, Len(ENTITY_QUOT) + 1, Len(s)))
    ELSE IF IsPrefix(ENTITY_APOS, s)
         THEN <<APOS>> \o html_unescape(SubSeq(s, Len(ENTITY_APOS) + 1, Len(s)))
    ELSE <<Head(s)>> \o html_unescape(Tail(s))
Entities == {ENTITY_AMP, ENTITY_LT, ENTITY_GT, ENTITY_QUOT, ENTITY_APOS}
\* out shows text with every special character as its entity, escaped once
EscapedOnce(out, text) ==
    /\ \A i \in 1..Len(out) : out[i] \notin {LT, GT, QUOT, APOS}
    /\ \A i \in 1..Len(out) :
          out[i] = AMP =>
              \E ent \in Entities : IsPrefix(ent, SubSeq(out, i, Len(out)))
    /\ html_unescape(out) = text
    /\ Len(out) = Len(text)
          + Cardinality({i \in 1..Len(text) : text[i] = AMP}) * (Len(ENTITY_AMP) - 1)
          + Cardinality({i \in 1..Len(text) : text[i] = LT}) * (Len(ENTITY_LT) - 1)
          + Cardinality({i \in 1..Len(text) : text[i] = GT}) * (Len(ENTITY_GT) - 1)
          + Cardinality({i \in 1..Len(text) : text[i] = QUOT}) * (Len(ENTITY_QUOT) - 1)
          + Cardinality({i \in 1..Len(text) : text[i] = APOS}) * (Len(ENTITY_APOS) - 1)
\* the text between the i-th <pre><code> and the </code></pre> after it
HTML_CODE_OPEN == <<60, 112, 114, 101, 62, 60, 99, 111, 100, 101, 62>>
HTML_CODE_CLOSE == <<60, 47, 99, 111, 100, 101, 62, 60, 47, 112, 114, 101, 62>>
CodeText(content, k) ==
    LET from == NthMin(Matches(content, HTML_CODE_OPEN), k) + Len(HTML_CODE_OPEN)
        to == NthMin(Matches(content, HTML_CODE_CLOSE), k)
    IN  SubSeq(content, from + 1, to)

\* C32: in the HTML export every & < > " ' of a block's command and output
\* appears only as its entity, and no entity is escaped a second time.
C32_EscapedOnce ==
    IsSome(exported) /\ exported[1].format = Html =>
        LET e == exported[1]
        IN  \A i \in 1..Len(e.blocks) :
               /\ EscapedOnce(CodeText(e.content, 2 * i - 1), e.blocks[i].command)
               /\ EscapedOnce(CodeText(e.content, 2 * i), e.blocks[i].output)
\* an HTML export of two blocks whose text holds all five characters and
\* the text of an entity
C32_Witness ==
    /\ IsSome(exported)
    /\ exported[1].format = Html
    /\ Len(exported[1].blocks) = 2
    /\ exported[1].blocks[1].output = TextOutSpecials
    /\ exported[1].blocks[1].command = TextCmdLess
    /\ exported[1].blocks[2].output = TextOutEntity

----------------------------------------------------------------------------
(* A full-screen program that writes a row cell by cell: the frames drawn  *)
(* while the row fills, on the grid the window gives                        *)

MaxCellFed == 3

\* the program enters the alternate screen and prints "ab"; it prints "c";
\* it prints "c" in red; it returns to the margin
CellChunks ==
    { ALT_SCREEN_ENTER \o <<97, 98>>,
      <<99>>,
      SGR_RED \o <<99>>,
      <<13>> }

\* the reader pump of the pane sends one chunk of the program
CellSend ==
    /\ fed < MaxCellFed
    /\ \E data \in CellChunks :
          /\ Len(layout[1].panes[1].data_receiver) < CHANNEL_CAPACITY
          /\ layout' = [layout EXCEPT ![1].panes[1].data_receiver = Append(@, data)]
    /\ fed' = fed + 1
    /\ UNCHANGED <<active_tab, render_cache, row_hashes, clock, next_id, edits, applied>>

NextCells ==
    \/ CellSend /\ UNCHANGED notApp
    \/ Tick /\ UNCHANGED notApp
    \/ Resize /\ UNCHANGED notApp
    \/ Render /\ UNCHANGED notRender
SpecCells == Init /\ [][NextCells]_vars

----------------------------------------------------------------------------
(* Properties of the row hash and the runs of a row *)

\* the cells of a row of a rows x cols grid, columns 0..cols - 1: contents,
\* foreground and background
RowCells(screen, row) ==
    [c \in 1..screen.cols |->
        <<vt100_cell(screen, row, c - 1), vt100_fgcolor(screen, row, c - 1),
          vt100_bgcolor(screen, row, c - 1)>>]

\* C33: the row hash takes into account the content, the foreground and the
\* background of every cell of the row, columns 0..cols - 1, also on a grid
\* that is not square: when a tick changes any cell of a row of a pane, the
\* hash input of the row changes.
C33_HashCoversRow ==
    [][Tick =>
        \A t \in 1..Len(layout) : \A i \in 1..Len(layout[t].panes) :
            LET before == layout[t].panes[i].parser.parser
                after == layout'[t].panes[i].parser.parser
            IN  \A row \in 0..(before.rows - 1) :
                    /\ after.rows = before.rows
                    /\ after.cols = before.cols
                    /\ RowCells(after, row) # RowCells(before, row)
                    => compute_row_hash(after, row) # compute_row_hash(before, row)]_vars

\* the columns a run covers, from its x and width
RunCols(run) ==
    { c \in 0..(ScreenRows + ScreenCols) :
        run.x <= c * CELL_WIDTH /\ c * CELL_WIDTH < run.x + run.width }

\* the runs cover the columns 0..cols - 1 from left to right: each starts
\* where the one before ends
RunsCover(runs, cols) ==
    /\ Len(runs) > 0
    /\ runs[1].x = 0
    /\ \A k \in 1..(Len(runs) - 1) : runs[k + 1].x = runs[k].x + runs[k].width
    /\ runs[Len(runs)].x + runs[Len(runs)].width = cols * CELL_WIDTH

\* every cell of a run has its colours, and its text is that of its cells
RunsUniform(screen, row, runs) ==
    \A k \in 1..Len(runs) :
        /\ \A c \in RunCols(runs[k]) :
              /\ IsSome(vt100_cell(screen, row, c))
              /\ color_to_iced(vt100_fgcolor(screen, row, c)) = runs[k].fg
              /\ bgcolor_to_iced(vt100_bgcolor(screen, row, c)) = runs[k].bg
        /\ runs[k].text
              = Concat([n \in 1..(runs[k].width \div CELL_WIDTH) |->
                          Unwrap(vt100_cell(screen, row,
                                            runs[k].x \div CELL_WIDTH + n - 1))])

\* two adjacent runs differ in fg or bg
RunsMaximal(runs) ==
    \A k \in 1..(Len(runs) - 1) :
        runs[k].fg # runs[k + 1].fg \/ runs[k].bg # runs[k + 1].bg

\* C34: the runs computed for a row of a pane that shows a canvas partition
\* its columns 0..cols - 1 from left to right without gap or overlap, every
\* cell of a run has the run's fg and bg, the run's text is the
\* concatenation of its cells' contents, and adjacent runs differ in fg or
\* bg.
C34_RunsPartitionRow ==
    \A id \in CanvasPanes :
        LET screen == ScreenOf(<<active_tab, id, 0>>)
        IN  \A row \in 0..(screen.rows - 1) :
               LET runs == compute_runs(screen, row, CELL_WIDTH)
               IN  /\ RunsCover(runs, screen.cols)
                   /\ RunsUniform(screen, row, runs)
                   /\ RunsMaximal(runs)

----------------------------------------------------------------------------
(* Properties of the order of the events and of markers that arrive in parts *)

\* the positions of the events of a type in a sequence of events
EventsOfType(events, type) == {k \in 1..Len(events) : events[k].type = type}

\* C35: events are queued in the order of their markers in the bytes: when
\* the scan buffer holds one well-formed command-end marker and one
\* command-start marker and the end marker comes first, the scan queues the
\* CommandEnd before the CommandStart.
C35_EventsInStreamOrder ==
    (/\ calls > 0
     /\ Cardinality(Matches(p.buffer, OSC_COMMAND_END_PREFIX)) = 1
     /\ Cardinality(Matches(p.buffer, OSC_COMMAND_START)) = 1
     /\ IsSome(WellFormedEndAt(p.buffer, SetMin(Matches(p.buffer, OSC_COMMAND_END_PREFIX))))
     /\ SetMin(Matches(p.buffer, OSC_COMMAND_END_PREFIX))
            < SetMin(Matches(p.buffer, OSC_COMMAND_START)))
        => /\ EventsOfType(lastScan, "CommandEnd") # {}
           /\ EventsOfType(lastScan, "CommandStart") # {}
           /\ SetMin(EventsOfType(lastScan, "CommandEnd"))
                 < SetMin(EventsOfType(lastScan, "CommandStart"))

\* C38: a command-end marker whose bytes came in two or more process()
\* calls is detected once its last byte is in the scan buffer: when the
\* first end marker of the buffer began before the last chunk and is
\* well-formed up to its terminator, which the last chunk brought, the scan
\* of that call queues its CommandEnd.
C38_SplitMarkerDetected ==
    (/\ calls > 1
     /\ Len(p.buffer) = Len(stream)
     /\ Matches(p.buffer, OSC_COMMAND_END_PREFIX) # {}
     /\ LET i == SetMin(Matches(p.buffer, OSC_COMMAND_END_PREFIX))
            rest == SliceFrom(p.buffer, i + Len(OSC_COMMAND_END_PREFIX))
        IN  /\ i < Len(stream) - Len(lastData)
            /\ IsSome(WellFormedEndAt(p.buffer, i))
            /\ i + Len(OSC_COMMAND_END_PREFIX) + Unwrap(FirstTerminator(rest))
                   >= Len(stream) - Len(lastData))
        => CountEnds(lastScan,
              Unwrap(WellFormedEndAt(p.buffer,
                        SetMin(Matches(p.buffer, OSC_COMMAND_END_PREFIX))))) = 1

----------------------------------------------------------------------------
(* Properties of the current block *)

\* the current block of every pane, when present, is a running one
CurrentBlocksRunning ==
    \A t \in 1..Len(layout) : \A i \in 1..Len(layout[t].panes) :
        IsSome(layout[t].panes[i].current_block) =>
            /\ Unwrap(layout[t].panes[i].current_block).exit_code = None
            /\ IsSome(Unwrap(layout[t].panes[i].current_block).started_at)
            /\ Unwrap(layout[t].panes[i].current_block).ended_at = None

\* C36: in every reachable state the current block, when present, has no
\* exit code, started_at set and no ended_at; the block CommandEnd(code)
\* appends to history has exit_code = Some(code), and the block the
\* defensive finalization of a CommandStart appends has no exit code.
C36_CurrentBlockShape ==
    /\ CurrentBlocksRunning
    /\ [][/\ CurrentBlocksRunning'
          /\ (EventStep /\ IsSome(ThePane.current_block)
                        /\ Last(applied').type = "CommandEnd")
                => /\ Len(ThePane'.history) = Len(ThePane.history) + 1
                   /\ Last(ThePane'.history).exit_code = Some(Last(applied').code)
          /\ (EventStep /\ IsSome(ThePane.current_block)
                        /\ Last(applied').type = "CommandStart")
                => /\ Len(ThePane'.history) = Len(ThePane.history) + 1
                   /\ Last(ThePane'.history).exit_code = None]_vars

\* two CommandStart events and CommandEnd(1) have been applied: history
\* holds the block of the defensive finalization and the block that ended
\* with code 1
C36_Witness ==
    /\ Len(applied) = 3
    /\ applied[1].type = "CommandStart"
    /\ applied[2].type = "CommandStart"
    /\ applied[3] = EvCommandEnd(1)
    /\ Len(ThePane.history) = 2
    /\ ThePane.history[1].exit_code = None
    /\ ThePane.history[2].exit_code = Some(1)
    /\ ThePane.current_block = None

----------------------------------------------------------------------------
(* Properties of the tabs, the panes and the layout trees *)

\* the pane ids of the leaves of a layout tree, from left to right
RECURSIVE leaf_seq(_)
leaf_seq(node) ==
    IF node.kind = "Leaf" THEN <<node.pane_id>>
    ELSE leaf_seq(node.left) \o leaf_seq(node.right)

\* C39: after any sequence of split-pane, close-pane, switch-pane, new-tab,
\* close-tab and select-tab operations there is at least one tab, every tab
\* has at least one pane, active_tab is less than the number of tabs, each
\* tab's active_pane is less than its number of panes, and the leaves of
\* each tab's layout tree are exactly the ids 0..panes.len() - 1, each once.
C39_LayoutWellFormed ==
    /\ Len(layout) >= 1
    /\ active_tab >= 0
    /\ active_tab < Len(layout)
    /\ \A t \in 1..Len(layout) :
          /\ Len(layout[t].panes) >= 1
          /\ layout[t].active_pane >= 0
          /\ layout[t].active_pane < Len(layout[t].panes)
          /\ Len(leaf_seq(layout[t].root)) = Len(layout[t].panes)
          /\ leaf_ids(layout[t].root) = 0..(Len(layout[t].panes) - 1)

\* three panes were made in the first tab by two splits, one of them was
\* closed and the two left were renumbered, and a second tab was opened
\* and is selected
C39_Witness ==
    /\ Len(layout) = 2
    /\ active_tab = 1
    /\ Len(layout[1].panes) = 2
    /\ leaf_seq(layout[1].root) \in {<<0, 1>>, <<1, 0>>}
    /\ next_id = 4
    /\ spawn_errors = 0

----------------------------------------------------------------------------
(* Properties of the two cache maps together *)

\* C40: in every state in which a render pass can start the row-hash map
\* and the render cache have the same keys: a key with a stored hash has
\* cached runs, whatever the interleaving of render passes with the clears
\* of resize, new tab and tab close.
C40_SameKeys == map_keys(row_hashes) = map_keys(render_cache)

\* rows are stored under their keys after the caches were cleared by a
\* resize: the pane has another size than at its creation, and a frame
\* drawn since left hashes and runs
C40_Witness ==
    /\ row_hashes # EmptyMap
    /\ render_cache # EmptyMap
    /\ \E t \in 1..Len(layout) : \E i \in 1..Len(layout[t].panes) :
          layout[t].panes[i].parser.parser.rows # ScreenRows
    /\ \E n \in 1..Len(drawn) : drawn[n].recomputed

----------------------------------------------------------------------------
(* The child of the first pane exits: its pump reads what the child wrote  *)
(* and then EOF, while ticks drain the channel and panes and tabs are      *)
(* opened, selected and closed between ticks                               *)

\* the reads that return data in a SpecExit behaviour
MaxExitReads == 2

\* what the child writes: the command-start marker, and a command's output
\* with its command-end marker
ExitChunks ==
    { MarkerC(BEL),
      TextLs \o MarkerD(<<48>>, BEL) }

\* reader.read(&mut buf) on the master of a child that may have exited
ExitRead ==
    /\ pump.pc = "read"
    /\ \E result \in ReadResults : \E data \in ExitChunks :
         /\ result = "data" => Len(reads) < MaxExitReads
         /\ pump' = pump_on_read(pump, result, data)
         /\ reads' = IF result = "data" THEN Append(reads, data) ELSE reads
    /\ UNCHANGED <<appVars, ticking>>

NextExit ==
    \/ ExitRead /\ UNCHANGED notPump
    \/ PumpSend /\ UNCHANGED notPump
    \/ PumpWake /\ UNCHANGED notPump
    \/ TickRecv /\ UNCHANGED notPump
    \/ TickPaneDone /\ UNCHANGED notPump
    \/ LoopIdle /\ SplitPane /\ UNCHANGED notApp
    \/ LoopIdle /\ SwitchPane /\ UNCHANGED notApp
    \/ LoopIdle /\ ClosePane /\ UNCHANGED notApp
    \/ LoopIdle /\ NewTab /\ UNCHANGED notApp
    \/ LoopIdle /\ SelectTab /\ UNCHANGED notApp
    \/ LoopIdle /\ CloseTab /\ UNCHANGED notApp
SpecExit == Init /\ [][NextExit]_vars

----------------------------------------------------------------------------
(* Properties of a pane whose child has exited *)

\* the pump has stopped at EOF and its pane has a running block
ExitedWhileRunning ==
    /\ pump.pc = "exited"
    /\ pump.last = "eof"
    /\ IsSome(PumpPane)
    /\ has_running_block(PumpedPane)

\* the step leaves the pane in place with its block and its history
PaneStaysAsItIs ==
    /\ IsSome(PumpPane')
    /\ PumpedPane'.current_block = PumpedPane.current_block
    /\ PumpedPane'.history = PumpedPane.history

\* C37: if the child exits (the pump reaches EOF and stops) while the
\* pane's current block is Running, no later tick changes the pane's block
\* state: the block stays Running without an exit code, history is
\* unchanged, and every later close request for the pane or its tab is
\* refused.
C37_InertAfterExit ==
    [][ExitedWhileRunning => PaneStaysAsItIs]_vars

\* C37, amended: the same once the ticks have processed every chunk the
\* pump sent before it stopped (the channel is empty and no event of the
\* pane waits to be applied).
C37_InertOnceDrained ==
    [][(/\ ExitedWhileRunning
        /\ PumpedPane.data_receiver = <<>>
        /\ PumpedPane.parser.events = <<>>)
       => /\ PaneStaysAsItIs
          /\ PumpedPane'.data_receiver = <<>>
          /\ PumpedPane'.parser.events = <<>>
          /\ pump' = pump]_vars

\* the child exited with its block running and every chunk processed; the
\* pane is the active one of two in its tab, between two ticks, so that a
\* close request is aimed at it
C37_Witness ==
    /\ ExitedWhileRunning
    /\ PumpedPane.data_receiver = <<>>
    /\ PumpedPane.parser.events = <<>>
    /\ LoopIdle
    /\ Len(layout[Unwrap(PumpPane)[1]].panes) = 2
    /\ active_tab = Unwrap(PumpPane)[1] - 1
    /\ layout[active_tab + 1].active_pane = Unwrap(PumpPane)[2] - 1

============================================================================
